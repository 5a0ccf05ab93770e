---------------------------- MODULE ConfigProofs ----------------------------
(***************************************************************************)
(* Loading the configuration, for any settings in any number: what a load  *)
(* returns is what the highest layers say, and --debug-config names the    *)
(* layers that set something.                                              *)
(***************************************************************************)
EXTENDS Config, TLAPS

-----------------------------------------------------------------------------
(* Layers.                                                                 *)

(* A layer sets keys of its pairs, each to a value it is paired with.      *)
LEMMA LayerOfPairs ==
  ASSUME NEW pairs, NEW size, NEW f \in Layers(pairs, size),
         NEW k \in DOMAIN f
  PROVE  \E s \in pairs : s[1] = k /\ s[2] = f[k]
<1>1. PICK S \in SUBSET pairs :
        f = [j \in {s[1] : s \in S} |-> (CHOOSE s \in S : s[1] = j)[2]]
  BY DEF Layers
<1>2. \E s \in S : s[1] = k
  BY <1>1
<1>3. PICK s \in S : s = CHOOSE t \in S : t[1] = k
  BY <1>2
<1>4. s[1] = k
  BY <1>2, <1>3
<1>5. f[k] = s[2]
  BY <1>1, <1>3
<1> QED
  BY <1>4, <1>5

(* What a layer of raw values may hold.                                    *)
RawLayer(f) ==
  \A k \in DOMAIN f : k \in Keys /\ (Decodable(k, f[k]) => HasType(k, f[k].content))

FlagLayer(f) == \A k \in DOMAIN f : k \in Keys /\ HasType(k, f[k])

LEMMA RawLayers ==
  ASSUME NEW size, NEW f,
         f \in Layers(FileRaws, size) \/ f \in Layers(EnvRaws, size)
  PROVE  RawLayer(f)
<1> SUFFICES ASSUME NEW k \in DOMAIN f
             PROVE  k \in Keys /\ (Decodable(k, f[k]) => HasType(k, f[k].content))
  BY DEF RawLayer
<1>1. PICK s \in FileRaws \cup EnvRaws : s[1] = k /\ s[2] = f[k]
  <2>1. CASE f \in Layers(FileRaws, size)
    BY <2>1, LayerOfPairs
  <2>2. CASE f \in Layers(EnvRaws, size)
    BY <2>2, LayerOfPairs
  <2> QED
    BY <2>1, <2>2
<1>2. s[1] \in Keys /\ (Decodable(s[1], s[2]) => HasType(s[1], s[2].content))
  BY InputAssumption
<1> QED
  BY <1>1, <1>2

LEMMA FlagLayers ==
  ASSUME NEW cmd, NEW size,
         NEW f \in Layers({s \in FlagValues : s[1] \in FlagsOf(cmd)}, size)
  PROVE  FlagLayer(f)
<1> SUFFICES ASSUME NEW k \in DOMAIN f PROVE k \in Keys /\ HasType(k, f[k])
  BY DEF FlagLayer
<1>1. PICK s \in {t \in FlagValues : t[1] \in FlagsOf(cmd)} : s[1] = k /\ s[2] = f[k]
  BY LayerOfPairs
<1>2. s[1] \in Keys /\ HasType(s[1], s[2])
  BY InputAssumption
<1> QED
  BY <1>1, <1>2

LEMMA NothingIsLayer == DOMAIN Nothing = {} /\ RawLayer(Nothing)
BY DEF Nothing, RawLayer

(* setDefaults gives every field a value of its type.                      *)
LEMMA DefaultsTyped ==
  /\ DOMAIN Defaults = Keys
  /\ \A k \in Keys : HasType(k, Defaults[k])
<1>1. DOMAIN Defaults = Keys
  BY DEF Defaults, Keys, Type
<1>2. ASSUME NEW k \in Keys PROVE HasType(k, Defaults[k])
  <2>1. CASE k \in {"attempts", "delay", "timeout", "max_delay", "multiplier",
                     "daemon_timeout"}
    <3>1. Type[k] # "string" /\ Type[k] # "bool"
      BY <2>1 DEF Type
    <3>2. Defaults[k] \in Int
      BY <2>1 DEF Defaults
    <3> QED
      BY <3>1, <3>2 DEF HasType
  <2>2. CASE k \in {"backoff", "success_pattern", "failure_pattern", "daemon_socket"}
    <3>1. Type[k] = "string"
      BY <2>2 DEF Type
    <3>2. Defaults[k] \in {Unset, "fixed", "daemon.sock"}
      BY <2>2 DEF Defaults
    <3> QED
      BY <3>1, <3>2, InputAssumption DEF HasType
  <2>3. CASE k \in {"case_insensitive", "daemon_enabled", "daemon_auto_start"}
    <3>1. Type[k] = "bool" /\ Type[k] # "string"
      BY <2>3 DEF Type
    <3>2. Defaults[k] = TRUE \/ Defaults[k] = FALSE
      BY <2>3 DEF Defaults
    <3> QED
      BY <3>1, <3>2 DEF HasType
  <2> QED
    BY <1>2, <2>1, <2>2, <2>3 DEF Keys, Type
<1> QED
  BY <1>1, <1>2

(* A value that Unmarshal has accepted is of the type of its field.        *)
LEMMA UnmarshalTyped ==
  ASSUME NEW f, NEW e, RawLayer(f), RawLayer(e), Unmarshal(f, e).ok,
         NEW k \in Keys
  PROVE  HasType(k, Unmarshal(f, e).c[k])
<1>1. Unmarshal(f, e).c[k] = IF k \in DOMAIN FoundIn(f, e) THEN FoundIn(f, e)[k].content
                             ELSE Defaults[k]
  BY DEF Unmarshal
<1>2. CASE k \notin DOMAIN FoundIn(f, e)
  BY <1>1, <1>2, DefaultsTyped
<1>3. CASE k \in DOMAIN FoundIn(f, e)
  <2>1. Decodable(k, FoundIn(f, e)[k])
    BY <1>3 DEF Unmarshal
  <2>2. \/ k \in DOMAIN e /\ FoundIn(f, e)[k] = e[k]
        \/ k \in DOMAIN f /\ FoundIn(f, e)[k] = f[k]
    BY <1>3 DEF FoundIn, EnvSet
  <2>3. HasType(k, FoundIn(f, e)[k].content)
    BY <2>1, <2>2 DEF RawLayer
  <2> QED
    BY <1>1, <1>3, <2>3
<1> QED
  BY <1>2, <1>3

-----------------------------------------------------------------------------
(* The inductive invariant.                                                *)

Loaders == Loading \cup {"LoadWithPrecedence"}
Loads == args.cmd \in Loaders

Decoded == Unmarshal(file, env)

Merged ==
  IF args.cmd = "LoadWithPrecedence" THEN MergeWithFlags(Decoded.c, args.flags)
  ELSE MergeWithExplicitFlags(Decoded.c, args.flags)

(* The layers of a run of patience hold settings of the right kind.        *)
InputInv ==
  /\ args.cmd \in Loaders \cup NotLoading \cup {"patienced"}
  /\ args.cmd # "patienced" =>
       FlagLayer(args.flags) /\ RawLayer(env) /\ RawLayer(file)

(* Where the load is, and what of the layers is in cfg by then.            *)
PhaseInv ==
  /\ pc \in {"RunE", "Read"} => file = Nothing
  /\ Loads /\ path = Unset => file = Nothing
  /\ pc \in {"Read", "BindEnv", "Unmarshal", "Merge", "Validate",
             "ValidateCommon", "loaded"} => Loads
  /\ pc = "Merge" => Decoded.ok /\ cfg = Decoded.c
  /\ (pc \in {"Validate", "ValidateCommon", "loaded"}
        \/ (pc = "running" /\ args.cmd \in Loading)) => Decoded.ok /\ cfg = Merged
  /\ pc = "ValidateCommon" => args.cmd \in Loading /\ Validate(cfg)
  /\ pc = "loaded" => args.cmd \notin Loading
  /\ pc = "running" => /\ CommonValidate(cfg)
                       /\ args.cmd \in Loading => Validate(cfg)
                       /\ args.cmd \in Loading \cup NotLoading
  /\ pc = "rejected" /\ args.cmd \in Loading =>
       ~(Decoded.ok /\ Validate(Merged) /\ CommonValidate(Merged))
  /\ pc = "serving" => args.cmd = "patienced"

(* What debugInfo says of a key before the environment is looked at, and   *)
(* before the flags are.                                                   *)
NamesFile(k) == sources[k] = IF path = Unset THEN "default" ELSE "file"
NamesEnv(k) == IF k \in EnvSet(env) THEN sources[k] = "env" ELSE NamesFile(k)

SourceInv ==
  args.debug = TRUE /\ Loads =>
    \A k \in Keys :
      /\ pc \in {"RunE", "Read"} => sources[k] = "default"
      /\ pc = "BindEnv" => NamesFile(k)
      /\ pc \in {"Unmarshal", "Merge"} => NamesEnv(k)
      /\ pc \in {"Validate", "ValidateCommon", "running", "loaded"} =>
           IF k \in MergedFields THEN sources[k] = "flag" ELSE NamesEnv(k)

IInv == ConfigTypeOK /\ InputInv /\ PhaseInv /\ SourceInv /\ DaemonFlagsOverFile

(* Settings that flags override keep the types of their fields.            *)
LEMMA MergeTyped ==
  ASSUME NEW c, NEW flags, FlagLayer(flags), \A k \in Keys : HasType(k, c[k])
  PROVE  /\ DOMAIN MergeWithFlags(c, flags) = Keys
         /\ DOMAIN MergeWithExplicitFlags(c, flags) = Keys
         /\ \A k \in Keys : /\ HasType(k, MergeWithFlags(c, flags)[k])
                            /\ HasType(k, MergeWithExplicitFlags(c, flags)[k])
BY DEF FlagLayer, MergeWithFlags, MergeWithExplicitFlags, NonZero

LEMMA CommandsDiffer ==
  /\ "patienced" \notin Loaders \cup NotLoading
  /\ "LoadWithPrecedence" \notin Loading \cup NotLoading
  /\ Loading \cap NotLoading = {}
BY DEF Loaders, Loading, NotLoading

(* A process that has parsed its command line satisfies the invariant.     *)
LEMMA InitIInv == ConfigInit => IInv
<1> SUFFICES ASSUME ConfigInit PROVE IInv
  OBVIOUS
<1>1. pc = "RunE" /\ path = Unset /\ file = Nothing
  BY DEF ConfigInit
<1>2. DaemonFlagsOverFile
  BY <1>1 DEF DaemonFlagsOverFile
<1>3. PhaseInv
  BY <1>1 DEF PhaseInv
<1>4. ASSUME NEW cmd \in Loaders \cup NotLoading,
             NEW fl \in Layers({s \in FlagValues : s[1] \in FlagsOf(cmd)}, FlagSize),
             NEW d \in BOOLEAN,
             args = [cmd |-> cmd, flags |-> fl, debug |-> d],
             cfg = MergeWithExplicitFlags(Defaults, args.flags),
             sources = [k \in Keys |-> "default"],
             env \in Layers(EnvRaws, EnvSize)
      PROVE  IInv
  <2>1. args.cmd = cmd /\ args.flags = fl
    BY <1>4
  <2>2. FlagLayer(args.flags) /\ RawLayer(env) /\ RawLayer(file)
    BY <1>1, <1>4, <2>1, FlagLayers, RawLayers, NothingIsLayer
  <2>3. InputInv
    BY <2>1, <2>2 DEF InputInv
  <2>4. args.cmd # "patienced"
    BY <1>4, <2>1, CommandsDiffer
  <2>5. DOMAIN cfg = Keys /\ \A k \in Keys : HasType(k, cfg[k])
    BY <1>4, <2>2, MergeTyped, DefaultsTyped
  <2>6. ConfigTypeOK
    BY <1>1, <1>4, <2>4, <2>5 DEF ConfigTypeOK
  <2>7. SourceInv
    BY <1>1, <1>4 DEF SourceInv
  <2> QED
    BY <1>2, <1>3, <2>3, <2>6, <2>7 DEF IInv
<1>5. ASSUME NEW fl, args = [cmd |-> "patienced", flags |-> fl, debug |-> FALSE],
             cfg = DefaultConfig, sources = Nothing
      PROVE  IInv
  <2>1. args.cmd = "patienced"
    BY <1>5
  <2>2. ConfigTypeOK
    BY <1>1, <1>5, <2>1 DEF ConfigTypeOK, DaemonKeys
  <2>3. InputInv
    BY <2>1 DEF InputInv
  <2>4. SourceInv
    BY <2>1, CommandsDiffer DEF SourceInv, Loads
  <2> QED
    BY <1>2, <1>3, <2>2, <2>3, <2>4 DEF IInv
<1> QED
  BY <1>4, <1>5 DEF ConfigInit, Loaders

(* What stays as it is while a file, the environment and flags are read.   *)
LEMMA SameProgram ==
  ASSUME InputInv, args' = args, env' = env,
         args.cmd # "patienced" => RawLayer(file')
  PROVE  InputInv'
BY DEF InputInv

LEMMA NotServing ==
  ASSUME pc' # "serving"
  PROVE  DaemonFlagsOverFile'
BY DEF DaemonFlagsOverFile

(* patienced has its settings in one step.                                 *)
LEMMA DaemonIInv == IInv /\ LoadDaemonConfig => IInv'
<1> SUFFICES ASSUME IInv, LoadDaemonConfig PROVE IInv'
  OBVIOUS
<1>1. args.cmd = "patienced" /\ UNCHANGED <<args, env, sources>>
  BY DEF LoadDaemonConfig
<1>2. pc' \in {"serving", "rejected"}
  BY DEF LoadDaemonConfig
<1>3. DOMAIN cfg = DaemonKeys /\ sources = Nothing
  BY <1>1 DEF IInv, ConfigTypeOK
<1>4. DOMAIN cfg' = DaemonKeys
  BY <1>3 DEF LoadDaemonConfig
<1>5. ConfigTypeOK'
  BY <1>1, <1>2, <1>3, <1>4 DEF ConfigTypeOK, LoadDaemonConfig
<1>6. InputInv'
  BY <1>1, SameProgram DEF IInv
<1>7. PhaseInv'
  BY <1>1, <1>2, CommandsDiffer DEF PhaseInv, Loads, Loaders
<1>8. SourceInv'
  BY <1>1, CommandsDiffer DEF SourceInv, Loads
<1>9. DaemonFlagsOverFile'
  <2> SUFFICES ASSUME pc' = "serving", NEW k \in DaemonKeys
               PROVE  /\ k \in DOMAIN args.flags /\ args.flags[k] # FlagDefault[k] =>
                           cfg'[k] = args.flags[k]
                      /\ k \notin DOMAIN args.flags /\ k \in DOMAIN file' =>
                           cfg'[k] = file'[k].content
    BY <1>1 DEF DaemonFlagsOverFile
  <2>1. cfg'[k] = IF FlagApplies(k, path') THEN DaemonFlag(k)
                  ELSE IF k \in DOMAIN file' THEN file'[k].content
                  ELSE DefaultConfig[k]
    BY DEF LoadDaemonConfig
  <2>2. k \in DOMAIN file' => path' # Unset
    BY NothingIsLayer DEF LoadDaemonConfig
  <2> QED
    BY <2>1, <2>2 DEF FlagApplies, DaemonFlag
<1> QED
  BY <1>5, <1>6, <1>7, <1>8, <1>9 DEF IInv

(* The names that FindConfigFile returns.                                  *)
LEMMA FindReturns ==
  ASSUME NEW present
  PROVE  FindConfigFile(present) \in {Unset} \cup ToSet(ConfigNames)
<1> DEFINE found == {i \in DOMAIN ConfigNames : ConfigNames[i] \in present}
<1>1. CASE found = {}
  BY <1>1 DEF FindConfigFile
<1>2. CASE found # {}
  <2>1. DOMAIN ConfigNames = 1 .. 4
    BY DEF ConfigNames
  <2>2. PICK m \in found : TRUE
    BY <1>2
  <2>3. \E i \in found : \A j \in found : i <= j
    <3>1. found \subseteq 1 .. 4
      BY <2>1
    <3> HIDE DEF found
    <3> QED
      BY <2>2, <3>1
  <2>4. (CHOOSE i \in found : \A j \in found : i <= j) \in found
    BY <2>3
  <2> QED
    BY <1>2, <2>4 DEF FindConfigFile, ToSet
<1> QED
  BY <1>1, <1>2

(* Looking for a file touches no setting.                                  *)
LEMMA LookIInv == IInv /\ LookForFile => IInv'
<1> SUFFICES ASSUME IInv, LookForFile PROVE IInv'
  OBVIOUS
<1>1. pc = "RunE" /\ Loads /\ pc' = "Read" /\ UNCHANGED <<args, file, env, cfg, sources>>
  BY DEF LookForFile, Loads, Loaders
<1>2. path' \in {Unset, "--config"} \cup ToSet(ConfigNames)
  BY FindReturns DEF LookForFile
<1>3. ConfigTypeOK'
  BY <1>1, <1>2 DEF IInv, ConfigTypeOK
<1>4. InputInv'
  BY <1>1, SameProgram DEF IInv, InputInv
<1>5. PhaseInv'
  BY <1>1 DEF IInv, PhaseInv, Loads
<1>6. SourceInv'
  BY <1>1 DEF IInv, SourceInv, Loads
<1>7. DaemonFlagsOverFile'
  BY <1>1, NotServing
<1> QED
  BY <1>3, <1>4, <1>5, <1>6, <1>7 DEF IInv

(* A file that is read supplies the settings below the environment.        *)
LEMMA ReadIInv == IInv /\ ReadConfigFile => IInv'
<1> SUFFICES ASSUME IInv, ReadConfigFile PROVE IInv'
  OBVIOUS
<1>1. pc = "Read" /\ UNCHANGED <<args, path, env, cfg>>
  BY DEF ReadConfigFile
<1>2. Loads /\ file = Nothing
  BY <1>1 DEF IInv, PhaseInv
<1>3. pc' \in {"BindEnv", "unreadable"}
  BY DEF ReadConfigFile
<1>4. args.cmd # "patienced"
  BY <1>2, CommandsDiffer DEF Loads
<1>5. RawLayer(file')
  <2>1. file' \in {Nothing} \cup Layers(FileRaws, FileSize)
    BY <1>2 DEF ReadConfigFile
  <2> QED
    BY <2>1, RawLayers, NothingIsLayer
<1>6. sources \in [Keys -> {"default", "file", "env", "flag"}]
  BY <1>4 DEF IInv, ConfigTypeOK
<1>7. sources' \in [Keys -> {"default", "file", "env", "flag"}]
  BY <1>6 DEF ReadConfigFile, RecordConfigFile
<1>8. ConfigTypeOK'
  BY <1>1, <1>3, <1>4, <1>7 DEF IInv, ConfigTypeOK
<1>9. InputInv'
  BY <1>1, <1>5, SameProgram DEF IInv
<1>10. PhaseInv'
  BY <1>1, <1>2, <1>3 DEF PhaseInv, Loads, ReadConfigFile
<1>11. SourceInv'
  <2> SUFFICES ASSUME args.debug = TRUE, pc' = "BindEnv", NEW k \in Keys
               PROVE  sources'[k] = IF path = Unset THEN "default" ELSE "file"
    BY <1>1, <1>3 DEF SourceInv, NamesFile
  <2>1. sources[k] = "default"
    BY <1>1, <1>2 DEF IInv, SourceInv
  <2> QED
    BY <1>2, <2>1 DEF ReadConfigFile, RecordConfigFile
<1>12. DaemonFlagsOverFile'
  BY <1>3, NotServing
<1> QED
  BY <1>8, <1>9, <1>10, <1>11, <1>12 DEF IInv

(* Binding the environment only records it.                                *)
LEMMA BindIInv == IInv /\ BindEnv => IInv'
<1> SUFFICES ASSUME IInv, BindEnv PROVE IInv'
  OBVIOUS
<1>1. /\ pc = "BindEnv" /\ pc' = "Unmarshal" /\ UNCHANGED <<args, path, file, env, cfg>>
      /\ sources' = IF args.debug THEN RecordEnvironment(sources, env) ELSE sources
  BY DEF BindEnv
<1>2. Loads
  BY <1>1 DEF IInv, PhaseInv
<1>3. args.cmd # "patienced"
  BY <1>2, CommandsDiffer DEF Loads
<1>4. sources \in [Keys -> {"default", "file", "env", "flag"}]
  BY <1>3 DEF IInv, ConfigTypeOK
<1>5. sources' \in [Keys -> {"default", "file", "env", "flag"}]
  BY <1>1, <1>4 DEF RecordEnvironment
<1>6. ConfigTypeOK'
  BY <1>1, <1>3, <1>5 DEF IInv, ConfigTypeOK
<1>7. InputInv'
  BY <1>1, SameProgram DEF IInv, InputInv
<1>8. PhaseInv'
  BY <1>1, <1>2 DEF IInv, PhaseInv, Loads
<1>9. SourceInv'
  <2> SUFFICES ASSUME args.debug = TRUE, NEW k \in Keys
               PROVE  IF k \in EnvSet(env) THEN sources'[k] = "env"
                      ELSE sources'[k] = IF path = Unset THEN "default" ELSE "file"
    BY <1>1 DEF SourceInv, NamesEnv, NamesFile
  <2>1. NamesFile(k)
    BY <1>1, <1>2 DEF IInv, SourceInv
  <2> QED
    BY <1>1, <2>1 DEF NamesFile, RecordEnvironment
<1>10. DaemonFlagsOverFile'
  BY <1>1, NotServing
<1> QED
  BY <1>6, <1>7, <1>8, <1>9, <1>10 DEF IInv

(* Decoding takes what was found, or refuses it.                           *)
LEMMA UnmarshalIInv == IInv /\ UnmarshalConfig => IInv'
<1> SUFFICES ASSUME IInv, UnmarshalConfig PROVE IInv'
  OBVIOUS
<1>1. /\ pc = "Unmarshal" /\ UNCHANGED <<args, path, file, env, sources>>
      /\ pc' = IF Decoded.ok THEN "Merge" ELSE "rejected"
      /\ cfg' = IF Decoded.ok THEN Decoded.c ELSE cfg
  BY DEF UnmarshalConfig, Decoded
<1>2. Loads /\ Decoded' = Decoded /\ Merged' = Merged
  BY <1>1 DEF IInv, PhaseInv, Decoded, Merged
<1>3. args.cmd # "patienced"
  BY <1>2, CommandsDiffer DEF Loads
<1>4. DOMAIN cfg' = Keys /\ \A k \in Keys : HasType(k, cfg'[k])
  <2>1. CASE ~Decoded.ok
    BY <1>1, <1>3, <2>1 DEF IInv, ConfigTypeOK
  <2>2. CASE Decoded.ok
    <3>1. RawLayer(file) /\ RawLayer(env)
      BY <1>3 DEF IInv, InputInv
    <3>2. \A k \in Keys : HasType(k, Decoded.c[k])
      BY <2>2, <3>1, UnmarshalTyped DEF Decoded
    <3>3. DOMAIN Decoded.c = Keys
      BY DEF Decoded, Unmarshal
    <3> QED
      BY <1>1, <2>2, <3>2, <3>3
  <2> QED
    BY <2>1, <2>2
<1>5. ConfigTypeOK'
  BY <1>1, <1>3, <1>4 DEF IInv, ConfigTypeOK
<1>6. InputInv'
  BY <1>1, SameProgram DEF IInv, InputInv
<1>7. PhaseInv'
  BY <1>1, <1>2 DEF IInv, PhaseInv, Loads
<1>8. SourceInv'
  BY <1>1, <1>2 DEF IInv, SourceInv, NamesEnv, NamesFile
<1>9. DaemonFlagsOverFile'
  BY <1>1, NotServing
<1> QED
  BY <1>5, <1>6, <1>7, <1>8, <1>9 DEF IInv

(* Merging puts the flags on top, and records it.                          *)
LEMMA MergeIInv == IInv /\ MergeFlags => IInv'
<1> SUFFICES ASSUME IInv, MergeFlags PROVE IInv'
  OBVIOUS
<1>1. /\ pc = "Merge" /\ pc' = "Validate" /\ UNCHANGED <<args, path, file, env>>
      /\ cfg' = IF args.cmd = "LoadWithPrecedence"
                THEN MergeWithFlags(cfg, args.flags)
                ELSE MergeWithExplicitFlags(cfg, args.flags)
      /\ sources' = IF args.debug THEN RecordFlags(sources, MergedFields)
                    ELSE sources
  BY DEF MergeFlags
<1>2. Loads /\ Decoded.ok /\ cfg = Decoded.c
  BY <1>1 DEF IInv, PhaseInv
<1>3. Decoded' = Decoded /\ Merged' = Merged /\ MergedFields' = MergedFields
  BY <1>1 DEF Decoded, Merged, MergedFields
<1>4. args.cmd # "patienced"
  BY <1>2, CommandsDiffer DEF Loads
<1>5. cfg' = Merged
  BY <1>1, <1>2 DEF Merged
<1>6. DOMAIN cfg' = Keys /\ \A k \in Keys : HasType(k, cfg'[k])
  <2>1. FlagLayer(args.flags) /\ \A k \in Keys : HasType(k, cfg[k])
    BY <1>4 DEF IInv, InputInv, ConfigTypeOK
  <2> QED
    BY <1>1, <2>1, MergeTyped
<1>7. sources' \in [Keys -> {"default", "file", "env", "flag"}]
  <2>1. sources \in [Keys -> {"default", "file", "env", "flag"}]
    BY <1>4 DEF IInv, ConfigTypeOK
  <2> QED
    BY <1>1, <2>1 DEF RecordFlags
<1>8. ConfigTypeOK'
  BY <1>1, <1>4, <1>6, <1>7 DEF IInv, ConfigTypeOK
<1>9. InputInv'
  BY <1>1, SameProgram DEF IInv, InputInv
<1>10. PhaseInv'
  BY <1>1, <1>2, <1>3, <1>5 DEF IInv, PhaseInv, Loads
<1>11. SourceInv'
  <2> SUFFICES ASSUME args.debug = TRUE, NEW k \in Keys
               PROVE  IF k \in MergedFields THEN sources'[k] = "flag"
                      ELSE IF k \in EnvSet(env) THEN sources'[k] = "env"
                      ELSE sources'[k] = IF path = Unset THEN "default" ELSE "file"
    BY <1>1, <1>3 DEF SourceInv, NamesEnv, NamesFile
  <2>1. NamesEnv(k)
    BY <1>1, <1>2 DEF IInv, SourceInv
  <2> QED
    BY <1>1, <2>1 DEF NamesEnv, NamesFile, RecordFlags
<1>12. DaemonFlagsOverFile'
  BY <1>1, NotServing
<1> QED
  BY <1>8, <1>9, <1>10, <1>11, <1>12 DEF IInv

(* Steps that only decide leave types, inputs and layers as they are.      *)
LEMMA OnlyDecided ==
  ASSUME IInv, UNCHANGED <<args, path, file, env, cfg, sources>>,
         pc' \in {"ValidateCommon", "loaded", "running", "rejected"}
  PROVE  ConfigTypeOK' /\ InputInv' /\ DaemonFlagsOverFile'
<1>1. ConfigTypeOK'
  BY DEF IInv, ConfigTypeOK
<1>2. InputInv'
  BY SameProgram DEF IInv, InputInv
<1> QED
  BY <1>1, <1>2, NotServing

(* Config.Validate decides about the merged settings.                      *)
LEMMA ValidateIInv == IInv /\ ValidateConfig => IInv'
<1> SUFFICES ASSUME IInv, ValidateConfig PROVE IInv'
  OBVIOUS
<1>1. pc = "Validate" /\ UNCHANGED <<args, path, file, env, cfg, sources>>
  BY DEF ValidateConfig
<1>2. Loads /\ Decoded.ok /\ cfg = Merged
  BY <1>1 DEF IInv, PhaseInv
<1>3. Decoded' = Decoded /\ Merged' = Merged /\ MergedFields' = MergedFields
  BY <1>1 DEF Decoded, Merged, MergedFields
<1>4. \/ pc' = "rejected" /\ ~Validate(cfg)
      \/ pc' = "ValidateCommon" /\ Validate(cfg) /\ args.cmd \in Loading
      \/ pc' = "loaded" /\ Validate(cfg) /\ args.cmd \notin Loading
  <2>1. CASE ~Validate(cfg)
    BY <2>1 DEF ValidateConfig
  <2>2. CASE Validate(cfg) /\ args.cmd \in Loading
    BY <2>2 DEF ValidateConfig
  <2>3. CASE Validate(cfg) /\ args.cmd \notin Loading
    BY <2>3 DEF ValidateConfig
  <2> QED
    BY <2>1, <2>2, <2>3
<1>5. PhaseInv'
  BY <1>1, <1>2, <1>3, <1>4 DEF IInv, PhaseInv, Loads
<1>6. SourceInv'
  BY <1>1, <1>2, <1>3, <1>4 DEF IInv, SourceInv, NamesEnv, NamesFile
<1> QED
  BY <1>1, <1>4, <1>5, <1>6, OnlyDecided DEF IInv

(* CommonConfig.Validate decides whether there is a run.                   *)
LEMMA CommonIInv == IInv /\ ValidateCommon => IInv'
<1> SUFFICES ASSUME IInv, ValidateCommon PROVE IInv'
  OBVIOUS
<1>1. /\ UNCHANGED <<args, path, file, env, cfg, sources>>
      /\ pc' = IF CommonValidate(cfg) THEN "running" ELSE "rejected"
  BY DEF ValidateCommon
<1>2. \/ /\ pc = "ValidateCommon" /\ args.cmd \in Loading
         /\ Decoded.ok /\ cfg = Merged /\ Validate(cfg)
      \/ pc = "RunE" /\ args.cmd \in NotLoading
  BY DEF ValidateCommon, IInv, PhaseInv
<1>3. Decoded' = Decoded /\ Merged' = Merged /\ MergedFields' = MergedFields
  BY <1>1 DEF Decoded, Merged, MergedFields
<1>4. PhaseInv'
  BY <1>1, <1>2, <1>3, CommandsDiffer DEF IInv, PhaseInv, Loads
<1>5. SourceInv'
  <2>1. CASE args.cmd \in NotLoading
    BY <1>1, <2>1, CommandsDiffer DEF SourceInv, Loads, Loaders
  <2>2. CASE args.cmd \in Loading /\ pc = "ValidateCommon"
    BY <1>1, <1>3, <2>2 DEF IInv, SourceInv, NamesEnv, NamesFile, Loads, Loaders
  <2> QED
    BY <1>2, <2>1, <2>2
<1> QED
  BY <1>1, <1>4, <1>5, OnlyDecided DEF IInv

(* Every step keeps the invariant.                                         *)
THEOREM InductiveInvariant == ConfigSpec => []IInv
<1>1. IInv /\ UNCHANGED configVars => IInv'
  <2> SUFFICES ASSUME IInv, UNCHANGED configVars PROVE IInv'
    OBVIOUS
  <2>1. UNCHANGED <<pc, args, path, file, env, cfg, sources>>
    BY DEF configVars
  <2>2. ConfigTypeOK' /\ InputInv'
    BY <2>1 DEF IInv, ConfigTypeOK, InputInv
  <2>3. PhaseInv'
    BY <2>1 DEF IInv, PhaseInv, Loads, Decoded, Merged
  <2>4. SourceInv'
    BY <2>1 DEF IInv, SourceInv, Loads, NamesEnv, NamesFile, MergedFields
  <2>5. DaemonFlagsOverFile'
    BY <2>1 DEF IInv, DaemonFlagsOverFile
  <2> QED
    BY <2>2, <2>3, <2>4, <2>5 DEF IInv
<1>2. IInv /\ ConfigNext => IInv'
  BY DaemonIInv, LookIInv, ReadIInv, BindIInv, UnmarshalIInv, MergeIInv,
     ValidateIInv, CommonIInv DEF ConfigNext
<1> QED
  BY InitIInv, <1>1, <1>2, PTL DEF ConfigSpec

-----------------------------------------------------------------------------
(* What Unmarshal and the merge leave in a field is what the highest layer *)
(* that sets it says.                                                      *)
LEMMA MergedIsHighest ==
  ASSUME Loads, NEW k \in Keys
  PROVE  Merged[k] = Supplied(Highest(k), k)
<1>1. Merged[k] = IF k \in Given THEN args.flags[k] ELSE Decoded.c[k]
  <2>1. CASE args.cmd \in Loading
    BY <2>1, CommandsDiffer DEF Merged, Given, MergeWithExplicitFlags
  <2>2. CASE args.cmd = "LoadWithPrecedence"
    BY <2>2, CommandsDiffer DEF Merged, Given, MergeWithFlags
  <2> QED
    BY <2>1, <2>2 DEF Loads, Loaders
<1>2. CASE k \in Given
  <2>1. Highest(k) = "flag"
    BY <1>2 DEF Highest
  <2> QED
    BY <1>1, <1>2, <2>1 DEF Supplied
<1>3. CASE k \notin Given
  <2>1. Merged[k] = IF k \in DOMAIN FoundIn(file, env) THEN FoundIn(file, env)[k].content
                    ELSE Defaults[k]
    BY <1>1, <1>3 DEF Decoded, Unmarshal
  <2>2. DOMAIN FoundIn(file, env) = DOMAIN file \cup EnvSet(env)
    BY DEF FoundIn
  <2>3. CASE k \in EnvSet(env)
    <3>1. Merged[k] = env[k].content
      BY <2>1, <2>2, <2>3 DEF FoundIn
    <3>2. Highest(k) = "env"
      BY <1>3, <2>3 DEF Highest
    <3> QED
      BY <3>1, <3>2 DEF Supplied
  <2>4. CASE k \notin EnvSet(env) /\ k \in DOMAIN file
    <3>1. Merged[k] = file[k].content
      BY <2>1, <2>2, <2>4 DEF FoundIn
    <3>2. Highest(k) = "file"
      BY <1>3, <2>4 DEF Highest
    <3> QED
      BY <3>1, <3>2 DEF Supplied
  <2>5. CASE k \notin EnvSet(env) /\ k \notin DOMAIN file
    <3>1. Merged[k] = Defaults[k]
      BY <2>1, <2>2, <2>5
    <3>2. Highest(k) = "default"
      BY <1>3, <2>5 DEF Highest
    <3> QED
      BY <3>1, <3>2 DEF Supplied
  <2> QED
    BY <2>3, <2>4, <2>5
<1> QED
  BY <1>2, <1>3

LEMMA LoadedMerged ==
  ASSUME IInv, HasLoaded
  PROVE  Loads /\ cfg = Merged
BY CommandsDiffer DEF IInv, PhaseInv, HasLoaded, Loads, Loaders

(* For the RunE of http-aware, exponential and diophantine: each setting   *)
(* is that of the highest layer that sets it, and only settings that would *)
(* have been in effect stop a run; LoadWithPrecedence returns such         *)
(* settings, and loadConfiguration of patienced puts flags that are not at *)
(* their default over the file.  It says nothing of where the settings of  *)
(* the other seven commands come from, only that they are valid.           *)
THEOREM LayersDecide == ConfigSpec => []HighestLayerDecides
<1>1. ASSUME IInv PROVE HighestLayerDecides
  <2>1. RunsAreValid
    BY <1>1 DEF IInv, PhaseInv, RunsAreValid, CommonValidate
  <2>2. HighestLayerWins
    BY <1>1, LoadedMerged, MergedIsHighest DEF HighestLayerWins
  <2>3. OnlyWhatAppliesDecides
    <3> SUFFICES ASSUME pc \in {"running", "rejected"}, args.cmd \in Loading
                 PROVE  pc = "running" <=>
                          Decoded.ok /\ Validate(Effective) /\ CommonValidate(Effective)
      BY DEF OnlyWhatAppliesDecides, Decoded, Unmarshal, FoundIn
    <3>1. Merged = Effective
      <4>1. Merged = [k \in Keys |-> Merged[k]]
        BY CommandsDiffer DEF Merged, MergeWithExplicitFlags
      <4>2. Loads
        BY DEF Loads, Loaders
      <4> QED
        BY <4>1, <4>2, MergedIsHighest DEF Effective
    <3>2. pc = "running" => Decoded.ok /\ Validate(Merged) /\ CommonValidate(Merged)
      BY <1>1 DEF IInv, PhaseInv
    <3>3. pc = "rejected" =>
            ~(Decoded.ok /\ Validate(Merged) /\ CommonValidate(Merged))
      BY <1>1 DEF IInv, PhaseInv
    <3> QED
      BY <3>1, <3>2, <3>3
  <2> QED
    BY <1>1, <2>1, <2>2, <2>3 DEF IInv, HighestLayerDecides
<1> QED
  BY <1>1, InductiveInvariant, PTL

(* --debug-config names the highest layer that sets a key, for every key   *)
(* that a flag, a variable or the file sets, and for every key when there  *)
(* is no file (recordDefaults, recordConfigFile, recordEnvironment,        *)
(* recordFlags and recordExplicitFlags, against what Unmarshal and the     *)
(* merge do).  It says nothing of a default beside a file, which the       *)
(* output calls "config file".                                             *)
THEOREM DebugNamesSetters == ConfigSpec => []DebugNamesSupplier
<1>1. ASSUME IInv, HasLoaded, args.debug = TRUE, NEW k \in Keys,
             Highest(k) # "default" \/ path = Unset
      PROVE  sources[k] = Highest(k)
  <2>1. Loads
    BY <1>1, LoadedMerged
  <2>2. IF k \in MergedFields THEN sources[k] = "flag" ELSE NamesEnv(k)
    BY <1>1, <2>1 DEF IInv, SourceInv, HasLoaded
  <2>3. MergedFields = Given
    BY <2>1, CommandsDiffer DEF MergedFields, Given, Loads, Loaders
  <2>4. path = Unset => DOMAIN file = {}
    BY <1>1, <2>1, NothingIsLayer DEF IInv, PhaseInv
  <2> QED
    BY <1>1, <2>2, <2>3, <2>4 DEF Highest, NamesEnv, NamesFile
<1>2. IInv => DebugNamesSupplier
  <2> SUFFICES ASSUME IInv, HasLoaded, args.debug, NEW k \in Keys,
                      Highest(k) # "default" \/ path = Unset
               PROVE  sources[k] = Highest(k)
    BY DEF DebugNamesSupplier
  <2> QED
    BY <1>1
<1> QED
  BY <1>2, InductiveInvariant, PTL
=============================================================================

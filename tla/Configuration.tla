---------------------------- MODULE Configuration ----------------------------
(***************************************************************************)
(* Where the settings of a run come from (packetsage-cli/src/config.rs,    *)
(* redact.rs, commands/analyze.rs, packetsage-core/src/config.rs): the     *)
(* configuration file that is used, the strict reading of it, and the      *)
(* order of precedence between the command line, the environment, the file *)
(* and the defaults.                                                       *)
(*                                                                         *)
(* A key is the sequence of its words (max_tokens is <<"max", "tokens">>). *)
(* A document is a function from the paths of its keys to their values, a  *)
(* path being a sequence of keys; a nested mapping has the value Mapping.  *)
(* A file is [readable, yaml, mapping, doc].                               *)
(***************************************************************************)
EXTENDS Integers, Sequences, FiniteSets, SequencesExt, Optional

CONSTANTS
  WordMax,    \* the largest byte size (2^64 - 1 in the code)
  Mapping,    \* the value of a nested mapping
  EmptyText,  \* a text that is given, but empty
  NotGiven    \* a layer that names no file

-----------------------------------------------------------------------------
(* Reading a file strictly                                                  *)

Schema ==
  (<<"engine">>     :> {<<"max", "sessions">>, <<"read", "buffer">>}) @@
  (<<"reassembly">> :> {<<"stream", "timeout">>, <<"max", "stream", "buffer">>,
                        <<"max", "sessions">>, <<"max", "segments", "per", "stream">>}) @@
  (<<"emit">>       :> {<<"packet", "events">>, <<"limit", "events">>}) @@
  (<<"storage">>    :> {<<"url">>}) @@
  (<<"rules">>      :> {<<"path">>, <<"enabled">>}) @@
  (<<"agent">>      :> {<<"max", "steps">>, <<"max", "llm", "calls">>, <<"max", "tool", "calls">>,
                        <<"max", "same", "tool", "calls">>, <<"max", "tokens">>,
                        <<"max", "cost", "cents">>, <<"scenario">>, <<"temperature">>}) @@
  (<<"llm">>        :> {<<"provider">>, <<"model">>, <<"base", "url">>, <<"temperature">>,
                        <<"timeout", "s">>})

Allowed(prefix) ==
  CASE prefix = <<>>      -> DOMAIN Schema
    [] Len(prefix) = 1 /\ prefix[1] \in DOMAIN Schema -> Schema[prefix[1]]
    [] OTHER              -> {}

ValidKeys(file) ==
  file.mapping /\ \A p \in DOMAIN file.doc : Last(p) \in Allowed(Front(p))

\* is_secret_key: whole words at the end of the name, never a part of a word.
IsSecretKey(key) ==
  LET n == Len(key)
  IN  \/ n = 1 /\ key[1] \in {"secret", "token", "tokens", "password"}
      \/ n >= 2 /\ (key[n] \in {"secret", "password"} \/ SubSeq(key, n - 1, n) = <<"api", "key">>)

NoSecrets(file) == \A p \in DOMAIN file.doc : ~ IsSecretKey(Last(p))

Unit ==
  [u \in {"", "b", "kb", "mb", "kib", "mib"} |->
     CASE u \in {"", "b"} -> 1
       [] u = "kb" -> 1000 [] u = "mb" -> 1000000 [] u = "kib" -> 1024 [] u = "mib" -> 1048576]

\* parse_byte_size, of a text [digits, unit]: None if it does not fit in a word.
ByteSize(t) ==
  IF t.digits > WordMax \/ t.digits > WordMax \div Unit[t.unit] THEN None
  ELSE t.digits * Unit[t.unit]

\* EngineConfig: its fields by path, with their defaults.
Defaults ==
  (<<<<"engine">>, <<"max", "sessions">>>>                        :> 100000) @@
  (<<<<"engine">>, <<"read", "buffer">>>>                         :> 1048576) @@
  (<<<<"reassembly">>, <<"stream", "timeout">>>>                  :> 60) @@
  (<<<<"reassembly">>, <<"max", "stream", "buffer">>>>            :> 8 * 1048576) @@
  (<<<<"reassembly">>, <<"max", "sessions">>>>                    :> 100000) @@
  (<<<<"reassembly">>, <<"max", "segments", "per", "stream">>>>   :> 4096) @@
  (<<<<"emit">>, <<"packet", "events">>>>                         :> "All") @@
  (<<<<"emit">>, <<"limit", "events">>>>                          :> 0) @@
  (<<<<"storage">>, <<"url">>>>                                   :> None) @@
  (<<<<"rules">>, <<"path">>>>                                    :> "rules") @@
  (<<<<"rules">>, <<"enabled">>>>                                 :> TRUE)

ByteSizes == {<<<<"engine">>, <<"read", "buffer">>>>, <<<<"reassembly">>, <<"max", "stream", "buffer">>>>}

FieldValue(doc, p) ==
  IF p \notin DOMAIN doc THEN Defaults[p]
  ELSE IF p \in ByteSizes THEN ByteSize(doc[p]) ELSE doc[p]

\* The values that serde accepts: a section of the engine is a mapping, none of
\* its fields is, and a byte size fits in a word.
Deserializes(doc) ==
  /\ \A p \in DOMAIN Defaults : SubSeq(p, 1, 1) \in DOMAIN doc => doc[SubSeq(p, 1, 1)] = Mapping
  /\ \A p \in DOMAIN Defaults \cap DOMAIN doc :
       doc[p] # Mapping /\ (p \in ByteSizes => ByteSize(doc[p]) # None)

\* load_strict, parse_strict: the configuration of a file, or None.
LoadStrictFile(file) ==
  IF /\ file # None /\ file.readable /\ file.yaml
     /\ ValidKeys(file) /\ NoSecrets(file) /\ Deserializes(file.doc)
  THEN [p \in DOMAIN Defaults |-> FieldValue(file.doc, p)]
  ELSE None

-----------------------------------------------------------------------------
(* Which file, and which value                                              *)

\* resolve, of --config, $PACKETSAGE_CONFIG and ./packetsage.yaml.  A layer that
\* is there decides, even if its file is missing (None) or bad: [source, config],
\* the configuration being None for a failure.
ResolveFile(flag, env, cwd) ==
  CASE flag # NotGiven -> [source |-> "Flag", config |-> LoadStrictFile(flag)]
    [] flag = NotGiven /\ env = EmptyText -> [source |-> "Environment", config |-> None]
    [] flag = NotGiven /\ env \notin {NotGiven, EmptyText} ->
         [source |-> "Environment", config |-> LoadStrictFile(env)]
    [] flag = NotGiven /\ env = NotGiven /\ cwd # NotGiven ->
         [source |-> "WorkingDirectory", config |-> LoadStrictFile(cwd)]
    [] flag = NotGiven /\ env = NotGiven /\ cwd = NotGiven ->
         [source |-> "Builtin", config |-> Defaults]

FirstOf(values) ==
  LET given == SelectSeq(values, LAMBDA v : v # None)
  IN  IF given = <<>> THEN None ELSE given[1]

\* env_first: the first variable that is set to something.
EnvFirst(env, names) ==
  FirstOf([i \in DOMAIN names |-> IF env[names[i]] = EmptyText THEN None ELSE env[names[i]]])

Url  == <<<<"storage">>, <<"url">>>>
Path == <<<<"rules">>, <<"path">>>>
DefaultUrl == "sqlite://packetsage.db"

UrlNames      == <<"PACKETSAGE_STORAGE_URL", "PACKETSAGE_DB">>
RulesNames    == <<"PACKETSAGE_RULES_PATH", "PACKETSAGE_RULES">>
ProviderNames == <<"PACKETSAGE_LLM_PROVIDER", "PACKETSAGE_PROVIDER">>
ModelNames    == <<"PACKETSAGE_LLM_MODEL">>

Variables == UNION {ToSet(names) : names \in {UrlNames, RulesNames, ProviderNames, ModelNames}}

\* Settings::resolve; cli has the fields db, rules, provider and model.
ResolveSettings(cli, env, config) ==
  [db       |-> FirstOf(<<cli.db, EnvFirst(env, UrlNames), config[Url], DefaultUrl>>),
   rules    |-> FirstOf(<<cli.rules, EnvFirst(env, RulesNames), config[Path]>>),
   provider |-> FirstOf(<<cli.provider, EnvFirst(env, ProviderNames), EmptyText>>),
   model    |-> FirstOf(<<cli.model, EnvFirst(env, ModelNames)>>)]

\* What a run of `packetsage serve` takes for itself (Worker::new).
WorkerSettings(env, config) ==
  [db    |-> FirstOf(<<EnvFirst(env, UrlNames), config[Url]>>),
   rules |-> FirstOf(<<EnvFirst(env, RulesNames), config[Path]>>)]

\* agent_command: the environment of the agent stage of `analyze --full`.
AgentEnv(env, settings) ==
  [v \in DOMAIN env |->
     CASE v = "PACKETSAGE_RULES"       -> settings.rules
       [] v = "PACKETSAGE_STORAGE_URL" -> settings.db
       [] v = "PACKETSAGE_LLM_PROVIDER" /\ settings.provider # EmptyText -> settings.provider
       [] v = "PACKETSAGE_LLM_MODEL" /\ settings.model # None -> settings.model
       [] OTHER -> env[v]]

-----------------------------------------------------------------------------
(* The settings of an analysis                                              *)

\* effective_config: the limit of events is the command line's, whatever the file says.
EffectiveConfig(args, config, settings) ==
  [config EXCEPT
     ![Path] = settings.rules,
     ![<<<<"emit">>, <<"limit", "events">>>>]  = args.limitEvents,
     ![<<<<"emit">>, <<"packet", "events">>>>] = IF args.errorsOnly THEN "ErrorsOnly" ELSE @,
     ![<<<<"rules">>, <<"enabled">>>>]         = @ /\ ~ args.noRules]

\* builtin_rules_dir: a directory of the disk is [builtin, files], builtin being
\* the listing of its subdirectory of that name, or None.
RuleFiles(disk, dir) ==
  IF dir \notin DOMAIN disk THEN <<>>
  ELSE IF disk[dir].builtin # None THEN disk[dir].builtin ELSE disk[dir].files

\* build_rules_for: None is a run without a rule engine.
OverlayOf(config, disk) ==
  IF config[<<<<"rules">>, <<"enabled">>>>] THEN RuleFiles(disk, config[Path]) ELSE None
=============================================================================

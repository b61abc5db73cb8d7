---------------------------- MODULE MCCommandLine ----------------------------
(* Inputs for CommandLine and Configuration, and what holds of them on all   *)
(* of these inputs; TLC evaluates the assumptions when it checks MCAnalysis. *)
EXTENDS CommandLine, Functions

-----------------------------------------------------------------------------
(* Configuration *)

NoDoc == <<>>

File(doc) == [readable |-> TRUE, yaml |-> TRUE, mapping |-> TRUE, doc |-> doc]

Emit  == <<<<"emit">>>> :> Mapping
Rules == <<<<"rules">>>> :> Mapping

\* A file of every fate.
ConfigFiles ==
  {File(NoDoc), [File(NoDoc) EXCEPT !.yaml = FALSE], [File(NoDoc) EXCEPT !.mapping = FALSE], None,
   File(Rules @@ (Path :> "mine")),
   File((<<<<"storage">>>> :> Mapping) @@ (Url :> "sqlite://file.db")),
   File(<<<<"rules">>>> :> "mine"),
   File((<<<<"storage">>>> :> Mapping) @@ (<<<<"storage">>, <<"api", "key">>>> :> "k")),
   File(<<<<"tokens">>>> :> "k"),
   File((<<<<"engine">>>> :> Mapping)
        @@ (<<<<"engine">>, <<"read", "buffer">>>> :> [digits |-> 1024, unit |-> "mib"]))}

Layers == ConfigFiles \cup {NotGiven}

\* The keys the schema lists, and the names redact.rs documents.
SchemaKeys == (UNION {Schema[s] : s \in DOMAIN Schema}) \cup DOMAIN Schema

\* No key the schema allows denotes a credential, and the words are compared
\* whole, as the comment of is_secret_key lists them (redact.rs:8-16).
ASSUME SchemaHoldsNoSecret ==
  /\ \A k \in SchemaKeys : ~ IsSecretKey(k)
  /\ \A k \in {<<"api", "key">>, <<"llm", "api", "key">>, <<"openai", "api", "key">>, <<"secret">>,
               <<"client", "secret">>, <<"token">>, <<"tokens">>, <<"password">>,
               <<"db", "password">>} : IsSecretKey(k)
  /\ \A k \in {<<"max", "tokens", "total">>, <<"token", "budget", "max">>, <<"api", "version">>,
               <<"key", "rotation", "seconds">>} : ~ IsSecretKey(k)

\* A byte size is the product when that fits in a word, and refused otherwise.
ASSUME ByteSizesExact ==
  \A d \in {0, 1, 2, 1000, 1023, 1024, 2000}, u \in DOMAIN Unit :
    ByteSize([digits |-> d, unit |-> u]) = IF d * Unit[u] <= WordMax THEN d * Unit[u] ELSE None

\* A layer that names a file decides alone: a bad file is never made up for by a
\* lower layer, and a file is only ignored for a layer above it.
ASSUME FirstLayerDecides ==
  \A flag \in Layers, env \in Layers \cup {EmptyText}, cwd \in Layers \ {None} :
    LET given == SelectSeq(<<flag, env, cwd>>, LAMBDA l : l # NotGiven)
    IN  ResolveFile(flag, env, cwd).config =
          IF given = <<>> THEN Defaults
          ELSE IF given[1] = EmptyText THEN None ELSE LoadStrictFile(given[1])

Texts == {None, EmptyText, "x"}

Environments == [Variables -> {None}] \cup
  {[v \in Variables |-> CASE v = "PACKETSAGE_STORAGE_URL" -> a [] v = "PACKETSAGE_DB" -> b
                          [] v = "PACKETSAGE_RULES_PATH" -> c [] v = "PACKETSAGE_RULES" -> d
                          [] OTHER -> None] : a \in Texts, b \in Texts, c \in Texts, d \in Texts}

Overrides == [db : {None, "y"}, rules : {None, "y"}, provider : {None}, model : {None, "m"}]

LoadedConfigs == {LoadStrictFile(f) : f \in ConfigFiles} \ {None}

\* The engine of the agent stage works on the database the analysis was stored
\* in, and with its rules unless PACKETSAGE_RULES_PATH, which comes before the
\* variable the stage is given, names other ones.
ASSUME AgentInherits ==
  \A cli \in Overrides, env \in Environments, config \in LoadedConfigs :
    LET settings == ResolveSettings(cli, env, config)
        worker   == WorkerSettings(AgentEnv(env, settings), config)
    IN  /\ worker.db = settings.db
        /\ worker.rules = settings.rules
             <=> env["PACKETSAGE_RULES_PATH"] \in {None, EmptyText, settings.rules}

-----------------------------------------------------------------------------
(* analyze *)

AnalyzeArgs ==
  [taskId : {None, "malformed"}, jsonl : BOOLEAN, json : {None, "file", "unwritable"},
   full : BOOLEAN, db : {None, "y"}, report : BOOLEAN]

Hosts ==
  {[s \in ToSet(LauncherSteps) |-> [found |-> s \in found, answers |-> s \in answers]] :
     found \in {{}, {"PATH"}, {"PATH", "agent/.venv"}, {"$PACKETSAGE_AGENT_BIN", "python -m"}},
     answers \in {{}, {"PATH", "python -m"}}}

Outcomes ==
  [error : {None, "Io", "Internal"}, stored : BOOLEAN, host : Hosts, run : StageEnds, report : StageEnds]

\* A failed analysis never exits with success; the agent stage only runs on a
\* task that was stored; a report is written only with success; and findings
\* that were not grounded are never passed over.
ASSUME ExitTellsWhatWasDone ==
  \A args \in AnalyzeArgs, outcome \in Outcomes :
    LET exit == AnalyzeExit(args, outcome)
        done == Done(args, outcome)
    IN  /\ exit = "Success" => "analysed" \in done
        /\ "investigated" \in done => "persisted" \in done
        /\ "reported" \in done => exit = "Success"
        /\ /\ ~ MachineReadable(args) /\ args.full /\ args.report
           /\ "persisted" \in done /\ Launcher(outcome.host) # None
           /\ \/ outcome.run.hallucination
              \/ Ok(outcome.run) /\ outcome.report.hallucination
           => exit \in {"Internal", "ConfigError"}

-----------------------------------------------------------------------------
(* db *)

Urls == [file : {DefaultUrl, "other.db"}, mode : {"ro", "rw"}]

\* A query opens nothing that could be written to, and the default database can
\* be queried without saying more.
ASSUME QueriesOnlyRead ==
  \A db \in Urls \cup {None}, set \in Urls, readonly \in BOOLEAN, limit \in {0, 1, 10000, 10001},
     keyword \in {"select", "delete"}, works \in BOOLEAN :
    LET args == [db |-> db, readonly |-> readonly, limit |-> limit, keyword |-> keyword]
        out  == DbQuery(args, [db |-> set], works)
    IN  /\ out.opened # None => ReadOnly(out.opened) /\ readonly
        /\ db = None /\ set = [file |-> DefaultUrl, mode |-> "rw"] /\ readonly /\ limit = 1
             /\ keyword = "select" => out.opened.file = DefaultUrl

\* Nothing is applied without consent; what is applied are the first pending
\* migrations, and all of them when the exit is a success and nobody declined.
ASSUME MigratesWithConsent ==
  \A yes \in BOOLEAN, tty \in BOOLEAN, answer \in {None, "y", "n"}, n \in 0 .. 2,
     opens \in BOOLEAN, fails \in {None, 1, 2} :
    LET pending == [i \in 1 .. n |-> i]
        args    == [yes |-> yes, tty |-> tty, answer |-> answer]
        out     == Migrate(args, pending, opens, IF n < 2 /\ fails = 2 THEN None ELSE fails)
    IN  /\ IsPrefix(out.applied, pending)
        /\ out.applied # <<>> => yes \/ (tty /\ answer = "y")
        /\ out.exit = "Success" /\ (yes \/ (tty /\ answer = "y")) => out.applied = pending
=============================================================================

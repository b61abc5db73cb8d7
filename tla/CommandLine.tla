----------------------------- MODULE CommandLine -----------------------------
(***************************************************************************)
(* What the sub-commands of `packetsage` do and how they exit              *)
(* (packetsage-cli/src: commands, agent_launcher.rs, exit.rs, and the rule *)
(* listing of serve.rs), as functions of the arguments and of how the      *)
(* parts they call turn out.  Printing is left out.                        *)
(***************************************************************************)
EXTENDS Configuration, RuleSchema

ExitCodes == {"Success", "Usage", "CaptureError", "ConfigError", "Internal", "Unsupported"}

\* From<PacketSageError>: the exit code of an error.
ExitOf(error) ==
  CASE error = "InvalidArgument" -> "Usage"
    [] error \in {"UnsupportedCapture", "CaptureCorrupted", "Io"} -> "CaptureError"
    [] error \in {"RuleError", "DatabaseError", "LlmError"} -> "ConfigError"
    [] error = "DecodeError" -> "Success"
    [] error \in {"ToolError", "Internal"} -> "Internal"

-----------------------------------------------------------------------------
(* The agent stage                                                          *)

\* agent_launcher::resolve: the ways to start the agent, tried in order.  The
\* host says of each whether its file is there and whether its probe answers.
LauncherSteps == <<"$PACKETSAGE_AGENT_BIN", "PATH", "agent/.venv", "python -m">>

Probed == {"PATH", "python -m"}

Launcher(host) ==
  LET works == SelectSeq(LauncherSteps, LAMBDA s : host[s].found /\ (s \in Probed => host[s].answers))
  IN  IF works = <<>> THEN None ELSE works[1]

\* How a stage ends: it cannot be launched, or exits with a code, maybe saying
\* that the findings were not grounded.
StageEnds ==
  {[launched |-> FALSE, code |-> None, hallucination |-> FALSE],
   [launched |-> TRUE, code |-> 0, hallucination |-> FALSE]}
  \cup [launched : {TRUE}, code : {1, 3, 4}, hallucination : BOOLEAN]

Ok(stage) == stage.launched /\ stage.code = 0

\* A command exits with the first reason it meets.
When(holds, exit) == IF holds THEN exit ELSE None

\* run_full: the run, then the report.  A stage that fails is only a warning,
\* but for a bad configuration and for findings that were not grounded.
FullExit(args, host, run, report) ==
  LET refused == run.launched /\ ~ Ok(run)
  IN  FirstOf(<<When(~ args.report, "Usage"),
                When(Launcher(host) = None, "Success"),
                When(refused /\ run.code = 3, "ConfigError"),
                When(refused /\ run.hallucination, "Internal"),
                When(~ Ok(run), "Success"),
                When(report.launched /\ ~ Ok(report) /\ report.hallucination, "Internal"),
                "Success">>)

-----------------------------------------------------------------------------
(* analyze                                                                  *)

\* What an invocation comes across: the pipeline's error or None, whether the
\* database takes the task, and the stages of the agent.
Persists(args) == args.db # None \/ (args.full /\ args.report)

MachineReadable(args) == args.jsonl \/ args.json # None

\* The stages of the invocation that are gone through: analysed, persisted,
\* investigated (the agent ran to its end) and reported.
Done(args, outcome) ==
  LET analysed == args.taskId # "malformed" /\ args.json # "unwritable" /\ outcome.error = None
      human    == analysed /\ ~ MachineReadable(args)
      stored   == human /\ Persists(args) /\ outcome.stored
      onward   == human /\ (Persists(args) => outcome.stored)
      asked    == onward /\ args.full /\ args.report /\ Launcher(outcome.host) # None
      answered == asked /\ Ok(outcome.run)
      Among(stage, holds) == IF holds THEN {stage} ELSE {}
  IN  Among("analysed", analysed) \cup Among("persisted", stored)
      \cup Among("investigated", answered) \cup Among("reported", answered /\ Ok(outcome.report))

\* analyze::run, in the order of its early returns.
AnalyzeExit(args, outcome) ==
  FirstOf(<<When(args.taskId = "malformed", "Usage"),
            When(args.json = "unwritable", "CaptureError"),
            When(outcome.error # None, ExitOf(outcome.error)),
            When(MachineReadable(args), "Success"),
            When(Persists(args) /\ ~ outcome.stored, "ConfigError"),
            When(args.full, FullExit(args, outcome.host, outcome.run, outcome.report)),
            When(args.report, "Unsupported"),
            "Success">>)

\* with_config, then the command.
Invoke(resolved, exit) == IF resolved.config = None THEN "ConfigError" ELSE exit

-----------------------------------------------------------------------------
(* rules list, rules check, and the rules request of the worker             *)

\* A directory that is not there lists the built-in rules alone.
RulesList(files, builtin) == LoadLenient(files, builtin).rules

CheckDirectory(files) == IF LoadStrict(files) = None THEN "ConfigError" ELSE "Success"

CheckFile(f) ==
  IF ~ f.readable THEN "CaptureError"
  ELSE IF Compiles(f) /\ Violations(f.rule, f.stem, {}) = {} THEN "Success" ELSE "ConfigError"

\* Worker::rules: without a path the built-in rules, else those of the directory.
RulesRequest(files, builtin) ==
  IF files = None THEN [loaded |-> Len(builtin), rules |-> builtin, dead |-> 0]
  ELSE LET load == LoadLenient(files, builtin)
       IN  [loaded |-> load.loaded, dead |-> Len(load.dead),
            rules  |-> SelectSeq(load.rules, LAMBDA r : r.id \in load.seen)]

-----------------------------------------------------------------------------
(* db query, db migrate                                                     *)

MaxLimit == 10000

ReadOnly(url) == url.mode = "ro"

\* run: the default database is opened read-only; a url is [file, mode].
QueryUrl(args, settings) ==
  IF args.db # None THEN args.db
  ELSE IF settings.db = [file |-> DefaultUrl, mode |-> "rw"] THEN [settings.db EXCEPT !.mode = "ro"]
  ELSE settings.db

\* run_query: the guards, then the statement on what it opens.
DbQuery(args, settings, works) ==
  LET url     == QueryUrl(args, settings)
      allowed == args.readonly /\ ReadOnly(url) /\ args.keyword \in {"select", "with", "explain"}
                 /\ args.limit \in 1 .. MaxLimit
  IN  [opened |-> IF allowed THEN url ELSE None,
       exit   |-> FirstOf(<<When(~ allowed, "Usage"), When(~ works, "ConfigError"), "Success">>)]

\* decide.
Decide(yes, tty, answer) ==
  FirstOf(<<When(yes, "Proceed"), When(~ tty, "NonInteractive"),
            When(answer \in {"y", "yes"}, "Proceed"), "AbortedByUser">>)

\* migrate_async: the pending migrations that are applied, in order, up to the
\* one that fails (its number, or None), and the exit code.
Migrate(args, pending, opens, fails) ==
  LET decision == Decide(args.yes, args.tty, args.answer)
      runs     == opens /\ pending # <<>> /\ decision = "Proceed"
  IN  [applied |-> IF ~ runs THEN <<>> ELSE IF fails = None THEN pending ELSE SubSeq(pending, 1, fails - 1),
       exit    |-> FirstOf(<<When(~ opens, "ConfigError"),
                             When(pending # <<>> /\ decision = "NonInteractive", "Usage"),
                             When(runs /\ fails # None, "ConfigError"), "Success">>)]
=============================================================================

# A TLA+ verification project for PacketSage

PacketSage analyses packet captures. A Rust *engine* decodes a capture,
reassembles TCP, keeps conversations and evaluates rules, and serves the result to
clients over JSON lines; a Python *agent* asks a language model to investigate the
result through tools of the engine, and may only state findings the engine can trace to
what it showed; a Tauri *shell* runs both as child processes and shows the agent's
events. This directory models the parts whose correctness depends on orders, limits,
failures and restarts, and the pure functions those parts are built from.

## The system

| component | state | operations | talks to |
|---|---|---|---|
| reader (`core/reader.rs`), decoders (`core/decoder/`) | interfaces of the section, packet index, counts | one block at a time; one frame at a time | pipeline |
| reassembly (`core/reassembly.rs`) | per conversation and direction: next byte, buffered pieces, ready bytes, byte account, flags | `feed`, `take_contiguous`, `state`, `prune_expired` | pipeline, store |
| conversations (`core/conversation.rs`) | session table: client side, counters, last verdicts | `observe`, `note_verdict`, `note_state`, summaries | pipeline, rules |
| pipeline and store (`core/pipeline.rs`, `core/store.rs`) | packets, alerts, findings, ledger, totals of a task | `run`, `dispatch`, `observe_*`, `store_finding`, `finalise_summary`, `reconstruct` | everything in the engine |
| rules (`rules/`) | loaded rules; windows per rule and group, cooldowns, evictions | loading, `evaluate`, `flush_for_task` | pipeline, command line |
| engine worker (`cli/serve.rs`), evidence (`protocol/evidence.rs`) | cache of tasks, their ledgers | one request at a time over stdin/stdout | agent, shell, storage |
| storage (`storage/sqlite.rs`, `cli/persist.rs`) | tasks, alerts, findings, runs, tool calls | upserts, listings | worker, `analyze --db` |
| command line and configuration (`cli/config.rs`, `cli/commands/`) | layered settings | `analyze`, `rules`, `db`, agent stage | pipeline, storage, agent |
| agent loop (`agent.py`, `policy.py`) | counters of the budget, trace, result, `interrupted` | one run: rounds of the model, tool calls, final answer | provider, engine client |
| provider (`provider.py`) | message table of the run | `decide`, `answer`, `record_tool_result` | the model's HTTP API |
| engine client (`engine_client.py`) | the child, heartbeat failures, unhealthy | `call`, `heartbeat`, `close` | engine |
| sidecar (`serve.py`) | `_active`, `_welcome`, `_fatal`, stdout lock, engine lock | commands `hello`, `run`/`chat`, `cancel`, `status`, `report`, `shutdown`; the run's thread | shell, agent loop |
| child over JSON lines (`jsonl.rs`) | `pending`, `alive`, stdin, the child | `spawn`, `request`, the reader thread, `close` | shell, both sidecars |
| event queue (`jsonl.rs`) | frames, `dropped`, `announced`, `closed` | `push`, `take`, forwarding thread, drop | reader thread, interface |
| shell (`lib.rs`, `commands.rs`, `sidecars.rs`) | the two sidecars, the run slot, the event channel | Tauri commands, frame sink, exit callbacks | all of the above |
| interface (`desktop/src`) | per-run view of events | reducers, rendering | shell |

What is hard, and where: wrapped sequence numbers, overlaps and a byte account in
reassembly; windows, eviction and clocks out of order in the rules; a pipeline that states
totals about events it wrote elsewhere, and a replay that must tell the same story a second
time; a worker that forgets tasks, dies, and rebuilds them from rows several requests wrote
by several transactions; three threads per child in the shell (caller, reader, closer) with
timeouts and deaths; a run slot written by a command after an await and by callbacks of two
processes; a cancel that is honoured at one point of a loop with retries; two threads of the
sidecar sharing stdout, the engine and `_active`. `PROJECT.json` lists each hazard at its
line, with the property that watches it or the reason why none does.

What makes each one correct: reassembly delivers exactly the bytes captured, once and in
order, and marks every loss; every packet is counted in one session and read with the
interface of its section; a window's aggregates are those of its events, alerts keep their
cooldown and name packets that support them, the report adds up; a finding is grounded in
what its task was shown, and findings and ledger survive evictions and restarts; the queue
shows frames in order and announces losses before the frame after them; a call returns, and
is registered exactly while it can be answered; no process is orphaned and a recorded run is
seen to end; a run stays within its budget, and every end of it is explained; the sidecar has
answered each command before it reads the next, frames its runs, and comes back to its input.

## Modules

**The analysis of a capture**

| module | models | state and actions |
|---|---|---|
| `StreamBuf` | `StreamBuf`, `feed`, `take_contiguous`, `gaps`, `note_state` | pure: a stream is a record; a *piece* is a run of bytes with its origin (feed, offset) in place of payload |
| `Reassembly` | one stream against every sequence of segments | `Feed`, `TakeContiguous`; the history of what was fed |
| `StreamTable` | `Reassembler` | the streams of both directions, the session cap, `merge_state`, `prune_expired` |
| `CaptureFile` | `CaptureReader` | `HandleBlock`: a block of either format turns a reader into a reader and an item |
| `Decoder` | `Decoder::decode`, `detect` | a frame says what each layer holds; `Decode` finds the first fault and the application |
| `Conversation` | `SessionKey`, `ConversationAggregator` | the session table as a sequence; `Observe`, `NoteVerdict`, summaries |
| `RuleSchema` | `RuleFile::validate`, `load_dir`, `load_dir_lenient` | what a rule file may say; `LoadLenient` folds the files of a directory over the built-in rules |
| `RuleMatch` | matching, samples, groups | an event is a record with named fields |
| `RuleWindow` | `RuleEngine`, `GroupWindow` | `Push`, `Prune`, `SumsOf`, `MakeRoom`, `CheckKey`; actions `EvaluateEvent`, `Flush` |
| `Query` | `ProtocolStats`, `QueryEngine`, `reconstruct` | `Tables` folds a file into what is queried; `Conversations`, `FilterPackets`, `Replayed` |
| `Analysis` | `AnalyzePipeline::run` and `AnalysisStore` | composes all of these: `Start`, `ReadBlock`, `Dispatch`, `EndOfFile`, `FlushRules`, `Finalise`, and the failures `SinkFails`, `Corrupted` |

**The worker and its database**

| module | models | state and actions |
|---|---|---|
| `Evidence` | `EvidenceLedger`, `validate_finding_v1_v4` | a ledger maps anchors to what their results showed |
| `Storage` | `SqliteRepo`, `persist` | a database is a record of tables; `Interrupted`, `Persisted` and `Recorded` are the databases that a request's statements, or the first of them, leave behind |
| `Engine` | `packetsage serve` | `Query` (all query methods), `AnalyzeFile`, `SubmitFinding`, `SubmitReportMeta`, cold recovery (`Primed`, `Rebuilt`), eviction (`Kept`), `Restart`; `CliAnalyze` is another process, `RemoveCapture` and `ReplaceCapture` are the user (external) |
| `Configuration` | settings, the file, `effective_config` | pure: keys are sequences of words, layers are values or `NotGiven` |
| `CommandLine` | exit codes, `analyze`, agent stage, `rules`, `db` | pure: what an invocation does and how it exits, from its arguments and from how the parts it calls turn out |
| `Optional` | nothing in the code | the value `None` |

**The agent and the shell**

| module | models | state and actions |
|---|---|---|
| `ReportedStream` | nothing in the code: the promise made to the interface | `Send`, `Report`, `Show` |
| `EventQueue` | `EventQueue` and its thread | `PushIntoRoom`, `PushDroppingDecoration`, `PushDroppingOldest` are the branches of `push`; `Upgrade`, `Take`, `DeliverWarning`, `DeliverFrame` the thread's loop; `Release` the drop of the shell's reference. Refines `ReportedStream` |
| `JsonlChild` | `JsonlChild` and a child process | `Check`, `Insert`, `Write`, `Receive`, `Expire`, `Forget` are the steps of `request` between which other threads run; `Route`, `SeeEOF`, `FailPending`, `Exited` the reader; `DropStdin`, `Reap`, `MarkDead`, `CloseDrain` are `close`; `Answer`, `Emit`, `Die` the child (external) |
| `Shell` | `run_agent`, `cancel`, `restart_agent`, the sink and the exit callbacks | extends `JsonlChild`: each action is a step of a child with what the shell adds (the slot, the current agent), and the agent's side of a run |
| `AgentLoop` | `PacketSageAgent.run`, `_run_tool`, `AgentPolicy` | one action per branch of the loop; the model's decision and the tools' results are chosen freely; `RequestFinalize` comes from another thread |
| `Sidecar` | `serve_forever`, `handle_line`, the commands, `_runner`, `shutdown` | a program counter for the main thread and one per run; the order of `_active`, ack, `run_started`, `run_finished`, `done` is that of the code |

`MC*` are instances for TLC: constants, and the assumptions listed below. A `*_proofs` module
holds the theorems about the module it is named after; there are eight, for `EventQueue`,
`JsonlChild`, `Shell`, `AgentLoop`, `Sidecar`, `Engine`, `Reassembly` and `Analysis` (with
`RuleWindow`, `RuleSchema` and `CaptureFile`).

How they fit: `Analysis` is one run of the pipeline, whose alerts and packets `Engine` takes
as given and serves; both share `Query`, so that what is replayed and listed later is
compared with what was counted while reading. `MCAnalysis` takes the configurations it
analyses with from `CommandLine` and `Configuration`, so the rules and limits of a run are
those an invocation would get. The agent is the client of `Engine`: `AgentLoop` is its run,
`Sidecar` the process around it with its run reduced to calls, events and an end, `Shell` the
process that starts that one, with the agent reduced to what it can tell apart. `EventQueue`
is where the frames the shell's sink gets go next.

Every mutant operator ("Regression: ...") is a definition with a plausible fault, used
to show that a property notices it; none is part of a specification.

### What was abstracted

* Payload bytes are (feed, offset), or a length where only the length matters. A frame is
  what its layers hold and where it is cut; addresses and ports are numbers, the bytes of an
  application protocol a name with its fields.
* Times are seconds; a rule's durations are those the loader accepts. Values compared with
  thresholds are fractions. The bytes of a window are whole numbers: the code sums them as
  `f64`, which is exact below 2^53. Alert ids are the run and the position in it; hashes are contents.
* `Analysis` dispatches the events of one block from a queue. The code interleaves the
  dispatch with the aggregation of the same packet; nothing in between reads what the other
  writes, except totals that are taken at the end.
* `make_room` may evict any of several windows touched at the same time, as the hash map's
  order decides in the code.
* An answer of the worker is what it lets a finding cite: the entities it names and the
  numbers it states. Requests refused for their arguments leave no trace and are left out.
* `SinkFails` is a write that fails on any dispatched event, on an alert of the flush, on the
  statistics or on `TaskFinished`; what the sink has written by then stays written.
* Segments carry a set of flags, of which only SYN, FIN and RST are kept. As in the code, a
  packet counts as `ethernet` if its link layer has a source address, Linux SLL included.
* A request of the worker is atomic, except that any prefix of its statements may have
  reached the database: a statement that fails ends the rest, and a death of the worker is
  that followed by `Restart`. Two processes that write one database take turns by requests.
* Taking a call off `pending` and sending into its channel are one step: a caller
  that gives up in between behaves as if it had given up before.
* The child's answer to a request and its events are chosen from a set of frames.
  The sink of the shell sees a frame only by whether it is a `run_finished`.
* A run's name is the call (or command) that started it. In `Engine` the run id of a report is
  the caller's, any of `Runs`: the sidecar reuses one, and `report` in a new engine sends none.
* In `AgentLoop`, "said" stands for a summary or a text that becomes one; the text of
  tool results, notes and prompts is not modelled. Preloaded facts touch no counter but
  `preloaded`. The cost limit is compared with a cost that nobody adds to
  (`policy.py:134`), and left out.
* In `Sidecar`, an engine call may end in an error or not; `status` may find the engine
  known to be gone. A command that is refused for its parameters, a bad mode or an
  unknown task is the same refusal. A handler may fail before its ack, or after it where the
  code goes on to write a frame or to start a thread; an output that refuses every frame, the
  acks included, is not modelled.

## Runs

`analysis` takes a minute and a half for 0.3 million states, `engine` as long, and `sidecar` a
little longer for 0.5 million; the others take seconds to half a minute. Deadlock is not checked:
every one of these systems may stop (no more input, all calls made, the run over, the process
gone).

| run | bounds | shows |
|---|---|---|
| `reassembly` | sequence space 32, limits of 4 bytes and 2 pieces, 13 kinds of segment around the wrap, 4 segments | `DeliveredIsSent`, `FirstCopyWins`, `NoSilentLoss`, `GapsExact`, `OverflowOnlyOverBudget` |
| `reassembly_budget` | the same | **violated** `HeldWithinBudget` |
| `analysis` | files of up to 5 blocks in either format, out of time order; 4 rules, one per metric or scope; 3 windows, 2 events each; 1 reassembled session; 3 invocations | `WindowsExact`, `RulesOverlay`, `ReadsItsSection`, `SessionsPartition`, `ReplayAgrees`, `CooldownHolds`, `EvidenceHolds`, `ReportAddsUp` |
| `engine` | 2 tasks, a cache of 1, 1 capture, 6 methods, 2 submissions, 2 run ids, 3 calls, 3 analyses; a recovery reads 1 finding and 1 call | `AcceptedGrounded`, `LostOnlyByCollision`, `LedgerCoversDatabase`, `AnchorsUnambiguous` |
| `engine_findings` | 2 tasks, a cache of 2, 2 run ids, 4 calls, 2 analyses | **violated** `FindingsSurvive` |
| `event_queue` | capacity 2, 5 frames of either kind | refinement of `ReportedStream` (`ReportsEveryLoss`), `NoWaitOnClosed`, `EventuallyShown` |
| `shell` | 1 run, 1 cancel, 2 agents, 3 frames in the pipe | `NoOrphanAgent`, `CallsRegistered`, `ReplacedAgentExits`, `RecordedRunEnds`, `PromptOnDeath` |
| `shell_cleared_run` | the same | **violated** `ClearedOnlyWithoutRun` |
| `agent_loop` | 5 steps and model calls, 4 tool calls, 3 same ones, 6 tokens, 2 bad calls, batches of 2, 2 tools, 2 drafts | `WithinBudget`, `EndExplained` |
| `agent_loop_table` | the same | **violated** `ToolCallsAnswered` |
| `agent_loop_cancel` | the same | **violated** `StopsAtBoundary` |
| `sidecar` | 5 commands, 1 event per run | `AnswersHold`, `RunFramed`, `SingleCaller`, `FinishedBeforeClose`, `MainReturns` |

Why the bounds are enough: four segments are the fewest that fill the buffer, overlap it
on both sides and overflow it, and the sequence space is wide enough for a piece before,
across and after the wrap. Five blocks hold a header, an interface and three packets, or a
second section; three packets and their errors fill a window past its budget of two, four
groups open more windows than three, and times that step back reach behind a window. Two
sessions of which one is reassembled are what the cap needs. A cache of one task makes every
second task evict the first; three calls are a query, a finding that cites it and the run that
records both, with a recovery before any of them. One submission makes a single finding, the
other two around a draft that is refused; with both, and with two recorded calls, a task has
more than a recovery reads. A queue of two drops twice in a row within five frames and can
hold a decoration at either place; with two calls every order of registering, draining,
timing out and answering occurs; a second agent is what a restart needs; the limits of the
loop differ so that each of them is the one that stops some run, with two rounds of
retry and repair on the way; five commands hold two runs with a cancel, a status and a
shutdown between and after them, or a run whose start fails and the commands refused behind it.
`TaskRunSymmetry` is sound: nothing orders tasks or run ids.

### Functions checked by assumptions

The loading of rules, configuration, commands and queries keep no state between steps; TLC evaluates what must hold
of them over all the inputs of an MC module when it starts the runs of `MCAnalysis`, `MCEngine` or
`MCReassembly`:

| assumption | says |
|---|---|
| `RuleViewsAgree` | `rules check`, `rules list`, the worker's `rules` and the analysis agree on every directory of up to three files |
| `FirstLayerDecides` | the first layer that names a configuration file decides alone, a bad file included |
| `AgentInherits` | the agent of `analyze --full` works with the settings the analysis had |
| `SchemaHoldsNoSecret`, `ByteSizesExact` | no allowed key denotes a credential; a byte size is exact or refused |
| `ExitTellsWhatWasDone` | exit code against stages done: nothing is investigated before it is stored, ungrounded findings are never passed over |
| `QueriesOnlyRead`, `MigratesWithConsent` | `db query` opens nothing writable; `db migrate` applies a prefix, with consent |
| `MCWindowed` | the segments of `MCReassembly` fit half of its sequence space: the hypothesis of four theorems |
| `IndexAgreesWithSessions`, `ListingsComplete`, `CountsAgree` | the queries of a finished task agree with each other |

### Fairness

* `EventQueue`: the forwarding thread, which does nothing but loop, runs when it can.
* `JsonlChild`, `Shell`: the caller's thread, the reader thread and `close` run when they
  can. Timeouts are never forced, so what a call returns it returns without its timeout;
  children owe nothing, except in `Shell` that an agent finishes its run
  (`AgentLoop` shows its rounds are bounded, and each has a timeout).
* `Sidecar`: the main thread runs; a call of the engine ends (it has a timeout). Strong
  fairness on taking the engine's lock stands for a run that makes a finite number of
  calls, and on ending the report for its finite list of calls. A run itself owes nothing:
  `MainReturns` holds with a run that hangs for ever between two calls.
* `Analysis`, `Engine`, `AgentLoop` and `Reassembly` state none: they are sequential programs
  of which safety is asked, and each of their loops is bounded by its input.

### What the violated properties mean

* **`HeldWithinBudget`** (`reassembly.rs:320`): bytes of a new segment that overlap buffered
  ones were never added to `pending_bytes`, yet they are subtracted from it. After a
  partial overlap the account is too low, and the buffer may grow past "Maximum buffered
  bytes per stream" (`core/config.rs:81`).
* **`FindingsSurvive`** (`sqlite.rs:418`): findings are numbered within their task but share
  one table under that number. The first finding of a second task overwrites the content of
  the first task's, stays listed under the first task, and is missing for its own.
  `LostOnlyByCollision` shows that this is the only way a written finding is lost (apart from
  a recovery that could not read them, or that reads only the first 200 of more).
* **`ClearedOnlyWithoutRun`** (`lib.rs:67`): one exit callback serves the engine and every
  agent; the exit of a replaced agent or of the engine clears a run that goes on.
* **`ToolCallsAnswered`** (`agent.py:378`): a round with unreadable tool arguments is retried
  while its tool calls stay in the message table without a result.
* **`StopsAtBoundary`** (`agent.py:328`): the head of the loop looks at a cancel only once a tool
  has been called. A run cancelled before that begins further rounds, three at most, and may
  end `ok`.

### Observations made while modelling

What the code does where a reader may expect something else; either no document promises
otherwise, or the promise is quoted and no run is kept for it. The models follow the code.

* Run ids of reports: a report without metadata of its own is submitted under the run the sidecar
  made last, on whichever task (`serve.py:729`; `report` in a new engine sends none,
  `cli.py:1256`), while the database keeps the task a run was first recorded with
  (`sqlite.rs:444`). The second task's calls are then listed for the first one, whose recovery
  takes them for its own, although `serve.rs:1437` speaks of "the *original* run's calls".
  `LedgerCoversDatabase` and `AnchorsUnambiguous` except these calls (`Misfiled`).
* Sidecar: an exception after a handler's ack (writing `welcome`, `run_started` or
  `report_written`, or starting the thread) is answered by a second ack, an error
  (`serve.py:489`). `AnswersHold` allows that one and says what is left to rely on. `_active` is set
  before the steps that may fail and never reset when they do (`serve.py:570`), nor when the
  thread dies: every later run is refused as busy with one that "is still going" (`serve.py:535`).
  What follows the agent's run in its thread is not guarded (`serve.py:640`): an exception there
  ends the run without `run_finished`, although "终态必须回到 GUI" (the terminal state must get
  back to the GUI, `serve.py:634`).
* Agent loop: the result holds the drafts from before they are validated and stored. When none
  passes (`agent.py:657`), or storing fails, `accepted` counts drafts the engine does not have
  (`GUI 前收口文档 v0.1.md:490` counts those that passed V1-V4 and `submit_finding`), and a run
  with neither a call nor a text, whose drafts were all rejected, ends `ok`.
* Run slot: the id of a run is stored after its ack was awaited (`commands.rs:369`); the reader
  thread may have handled its `run_finished` by then, and a later `cancel` names a run that is
  over, which `lib.rs:56` says cannot happen. The agent acks it and does nothing.
* Sessions: `ReplayAgrees` excludes a session whose client changed (a bare SYN in mid-stream
  swaps the directions the reassembler is fed, `conversation.rs:206`) and one that the session
  cap kept out (`reassembly.rs:251`). The keys of pruned sessions leave the table while the
  other direction's stream stays (`reassembly.rs:407`). "Sessions dropped" counts packets.
* Rules: an expired sample that came late stays in its window behind newer ones, because only
  the front is pruned (`evaluator.rs:175`); `WindowsExact` therefore speaks of the events inside
  the span. The flush evaluates session windows and expired ones too. Alerts of session rules
  name packet 0. Rules on decode errors ignore `match.protocol`.
* Ledger: it is recorded only by `submit_report_meta`, so a recovered finding may cite an
  anchor that is not restored (`serve.rs:1432`); the metadata of the report is not restored.
  `inspect_packets` makes every index that was asked for citable, existing or not.
* Cold recovery: `prime_cold_task` never compares the stored SHA-256 with the file
  (`serve.rs:154`) and analyses with the default configuration, as `analyze_file` does. Alerts
  get new ids each time, so a recovery followed by a submission stores them again.
* `get_protocol_stats` has no layer for ARP and leaves ICMPv6 out of "transport".
* Configuration: the schema allows no key that denotes a credential, so the unknown-key error
  comes first and the credential hint of `reject_secrets` is never reached.
  `effective_config` overwrites `emit.limit_events` of the file with the default of the flag
  (`analyze.rs:132`).
* `analyze --full` passes the rule directory as `PACKETSAGE_RULES` (`analyze.rs:414`), while the
  engine prefers `PACKETSAGE_RULES_PATH`: with that variable set, the agent's engine uses
  another directory. `AgentInherits` is stated without it. `--json` and `--jsonl` with `--full`
  skip storing and the agent, with exit code 0; `--report` without `--full` is refused only
  after the analysis.
* `db migrate` says "the schema is unchanged" when one of several migrations fails
  (`db.rs:243`), though those before it stay applied, and it creates the database file before
  it asks.

## Proofs

The theorems of the `*_proofs` modules hold for every value of the constants; they
assume only the named assumptions of their modules, and four of them that the capture of a
stream fits the window its sequence numbers are compared in (`Windowed`). Of external code they
assume what `IsBlock` and `IsFrame` say: that an address etherparse reads is one value of a totally
ordered type (`IpAddr`, here a number), and that it gives no transport header of a fragment.

* **Event queue.** The inductive invariant says that the numbers in `seen`, in `hand` and
  in `queue` ascend, that `queue` reaches to the last frame sent, and that the frames of
  substance missing up to the one in hand are counted by `told` plus what is in hand, and
  those missing up to the end by `dropped`. `TypeOK` does not see any of this, and
  neither of the two alone is inductive: dropping the oldest frame is accounted for only
  because the queue is ascending. From it follow the refinement (`StreamImplemented`: each
  step is a step of `ReportedStream` or changes none of its variables) and
  `NeverWaitsOnClosed`.
* **Child.** `ChildInv` adds to the types that a call in flight is registered or has
  something in its channel (`WaitersReachable` says it of waiting calls only, which is not
  inductive: the answer may arrive between registering and writing), that an answered
  call is registered nowhere (so an id is answered once), and `PendingInFlight`. One lemma
  per group of actions; `WithdrawInv` and `DrainInv` serve two actions each.
* **Shell.** Its actions are steps of a child plus assignments to the shell's own
  variables; the lemma `DrivesChildren` says so once, and through it `ChildInv`
  carries over from `JsonlChild_proofs`, and with it `NoLostWaiterInShell`, which is
  `CallsRegistered` for every number of calls and children. For
  `NoOrphanAgent` the invariant adds `AgentsStarted`: the current agent, and each one
  waiting to be installed, has been started, so a replacement always closes a real child.
* **Agent loop.** `IInv` adds to the properties what makes them inductive: while the run
  goes on every limit still has room (a call is made only from such a state, and
  `note_tool_call` ends the run when the room is used up); after a cancel the rounds
  begun are paid for by the retry and the repair, each of which is spent once; an
  explanation is there as soon as the run leaves the loop (`EndsExplained`). `TypeOK` needs
  `InvalidInv`: `invalid_args` stays in its range only because a run with its last bad call is
  over. The second of these bounds what `StopsAtBoundary` finds: `CancelledRunEnds` proves that
  a cancelled run begins at most three more rounds (`LateRounds`).

* **Sidecar.** The invariant is about the main thread's program counter, the run's, and the frames
  together: the frames of a run with a thread start with ack and `run_started`, and they end
  in `run_finished` exactly from the step on that wrote it, `_active` is the one run that may be
  between these, and only the holder of the engine's lock, or `status` while no run is in the
  engine, calls it. A command not yet answered has no ack, the one a handler goes on after has its
  `ok`, any other has one answer, or an `ok` and an error; a run with a thread has the `ok` and no
  more, which is why none goes on behind an error. A run whose start failed, or whose thread died,
  stays in `_active` for good, so no other begins after it. `RunFramed` alone says nothing of
  where the threads are, and `SingleCaller` nothing of the lock.
* **Engine.** `EngineInv` is stated of a worker and a database, not of the variables, because
  a request goes through several of both: the task is brought back (`PrimedInv`), findings are
  added (`Submitted`), rows are written in part or in full (`WrittenInPart`, `Written`,
  `RunWritten`), and the answer gets its anchor (`Answered`). It adds to the properties:
  the order lists each task once; anchors in the database were minted; what a ledger holds under
  an anchor whose call was recorded is what was recorded, of a call that was made on the task or is
  listed for it; two ledgers share an anchor only if its call was recorded; findings in memory are
  numbered by their position, those stored without gaps, and what is held starts with what is stored, unless the
  task is one the property excepts. None of `AcceptedGrounded`, `AnchorsUnambiguous` and
  `LedgerCoversDatabase` is inductive: a recovery replaces the ledger by what the database
  has. The lemmas on `InOrder` and `Limited` (an ordered listing has every key at its rank;
  a limit no smaller than the table cuts nothing) are proved from the library's theorems on
  finite sets, as is the upsert of findings with repeated numbers.

* **Reassembly.** `ReassemblyInv` says of the pieces buffered and delivered that each is cut
  from the segment it names, at its offset, and of the delivered ones that they run without a
  gap from where the stream began to `next_seq`. It is stated of a stream, the segments fed and
  a first number, because `feed` is a chain of calls: trimming against the buffered pieces
  (`SubtractCuts`), inserting (`InsertCuts`), dropping the front until the budget is met
  (`EnforceInv`), moving contiguous pieces over (`AdvanceInv`). `DeliveredIsSent` lacks the
  buffer's half of it and is not inductive: what is delivered next was buffered before. That the
  sequence space is circular costs the lemmas on remainders, and nothing is assumed of its size.
  `WindowInv` adds what needs sequence numbers of different segments compared, which the signed
  distance of the code does rightly only while one stream fits half of the space (2 GiB):
  `Windowed`, the hypothesis of these four theorems, says that some number opens a window of that
  size in which every segment ends. Each number then has a place in the window (`At`), distances are
  differences of places (`AtDistance`), and a piece takes an interval of them (`Cells`). The
  invariant says that the delivered pieces take exactly the places from the start to `next_seq`, the
  buffered ones lie behind and apart, and nothing waits at `next_seq` (`Placed`, `Settled`; for
  `GapsExact`); that every place a segment carried since the start is buffered, delivered or dropped
  (`Accounted`; for `NoSilentLoss`); that a place in use was carried earlier only where something was
  dropped (`EarliestUsed`; for `FirstCopyWins`, which as it stands is not inductive: that the parts of
  one segment never overlap, be they buffered or dropped, is what carries it over an insertion); and
  that `pending_bytes` never exceeds the places buffered (for `OverflowOnlyOverBudget`). That the
  account may fall *below* them is the finding of `reassembly_budget`.
* **Analysis.** `AnalysisInv` covers a run of the whole pipeline. Its parts, and what each of the
  properties needs of them:
  * `ReaderInv`: the reader's interfaces are those declared since the last section opened, and it
    counted the blocks that were readable where they stood. `ReadsItsSection` says only the
    second half. One lemma says how a further block changes the section of the last one.
  * `WindowInv`, for each window, the samples it matched and its length: the events kept are the
    last of those, the ones gone were older than the window (unless it was degraded), and the
    sums are what `SumsOf` makes of the events. That `Prune` may *subtract* what `Push` added is
    what `ReleaseUndoes` and `ReleaseCommutes` are for: releasing a sample undoes its accumulation,
    also when others were accumulated in between. They need that sums are well formed
    (`Good`: no count is zero), which is why the code removes a count that reaches zero.
  * `Cooling` and `Spaced`: every alert left its window a pause that lasts until a later alert of
    the same key, unless a window was evicted since. Neither `CooldownHolds` nor the windows
    alone say that the pause belongs to the last alert.
  * `LoadInv`, for the rules after so many files of the directory; `rules = RulesOf(config)`
    carries it into every state. That a file is refused for an id *seen before* is what keeps
    the rule of an earlier file in place.
  * `Sound` puts windows and alerts together for an engine in the middle of a call; an
    evaluation passes through one per rule, with every choice of evicted window.
  * `ReadInv`: while the capture is read, the reader is the one a second pass over the same blocks
    ends with (`Driven`), so "the packets of the file" of the next three properties, which `Query`
    computes afresh from the blocks, are those the reader handed on. `BlockRead` says of each block
    that it passes over or takes in one packet.
  * `EvidenceInv`, for `EvidenceHolds`: not the alerts only, but the events of every window and of the
    queue are about packets read, which the window's rule matches in the window's group (`Backs`).
    Within a window the packet numbers ascend whatever the times do; that is why the first and the
    last event bound the samples of an alert.
  * `SessionsInv`, for `SessionsPartition`: no two sessions have one key, the keys are those of the
    packets read, and each session has counted the packets of its key. The property speaks of pairs of
    endpoints instead; that a key and its pair determine each other needs that endpoints are totally
    ordered (`KeyByEnds`).
  * `ReplayInv`, for `ReplayAgrees`: a session whose key is in the table has the state of its two
    streams, and as long as its client did not change, each stream has the state a replay of the
    packets read so far in that direction ends with (`Follows`); a key a segment of which was read is
    missing from the table only if the cap is reached (`Admitted`). A replay always makes both streams and
    the table only those that were fed, so it takes that a stream never fed adds nothing to the state
    (`NewAddsNothing`).
  * `ReportInv`, for `ReportAddsUp`: at *every* step what the sink has written of a kind and what is
    still queued to be written, together, is what the store counts (`Balanced`); the property is its
    case for an empty queue. Dispatching moves an event from one to the other, reading a packet and
    closing the sessions add to the queue what they add to the store. It holds of a sink without a
    limit and until a write fails; that nothing is written after the end, and no end is written early
    (`NotFinished`), holds always.

The loops of the code are recursive functions in the model (`SumsOf`, `LoadLenient`,
`Evaluated`, `EnforceBudget`, ...). What they compute is proved without an induction schema:
the function is unrolled into its rounds (lemmas named `...Rounds`), and a set of round numbers
that holds 0 and is closed under the next holds them all (`CountUp`, from the library's theorem
that `<` on the naturals is well founded: a least counterexample has a predecessor).

Only model-checked:

* the assumptions above, which speak of pure functions over a bounded set of inputs;
* the liveness properties (`EventuallyShown`, `PromptOnDeath`, `ReplacedAgentExits`,
  `RecordedRunEnds`, `MainReturns`), which need fairness and ENABLED, out of the prover's reach.

## Not modelled

* `doctor` and `query` of the command line, progress and printing; prompts, reports and
  argument models of the agent; settings and secrets of the shell; the React interface; the
  Streamlit prototype; the fuzz harness: probing, rendering and I/O with no state a model
  would add to (see the notes in `PROJECT.json`).
* Of the worker: error codes, redaction, previews, timelines, and the database fallback of
  `check_alerts` for a task that cannot be recovered.
* Of the shell: its own shutdown, the event channel of a run (`commands.rs:362`: a refused run
  takes the channel of the one going on), and the configuration wizard.
* Of the agent: the conversation kept between runs, the engine client's heartbeat counter, the
  HTTP clients of the providers.

## Plan

Every invariant and step property that the passing runs check is stated by a theorem. What could follow, in
this order: the hazards of `PROJECT.json` that have no property yet; the assumptions of the MC modules
as theorems for inputs of every size, beginning with `RuleViewsAgree`; and the parts listed above,
where one of them gains state worth a model.

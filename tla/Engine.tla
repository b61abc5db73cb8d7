-------------------------------- MODULE Engine --------------------------------
(***************************************************************************)
(* The engine worker `packetsage serve` (packetsage-cli/src/serve.rs) with *)
(* its database and the capture files it depends on.  One request is       *)
(* handled at a time; a request is an action.  The worker forgets tasks    *)
(* (a bounded cache) and may die; a task that left memory is rebuilt from  *)
(* the database row and the capture before a call on it is answered.       *)
(*                                                                         *)
(* Left out: requests refused for their arguments, error codes, the        *)
(* database fallback of check_alerts for a cold task, redaction, and the   *)
(* bodies of the results; an answer is what it lets a finding cite.  The   *)
(* alerts that the rules raise on a file are a constant here: how they are *)
(* raised is the subject of Analysis.                                      *)
(***************************************************************************)
EXTENDS Query, Storage

CONSTANTS
  Tasks,        \* task ids
  Paths,        \* paths of capture files
  Files,        \* file contents (the model's SHA-256), each [blocks, raised], raised
                \* being the alerts of its analysis, as [rule, session]
  MaxTasks,     \* MAX_TASKS
  Requests,     \* by method, the arguments that are asked
  Drafts,       \* the drafts that findings are submitted as
  Runs,         \* the run ids that reports are submitted under
  MaxAnchors,   \* bound of the model: tool calls
  MaxAnalyses   \* bound of the model: runs of the pipeline

VARIABLES
  memory,     \* Worker.tasks: the stores, by task
  order,      \* Worker.order
  db,         \* the database
  disk,       \* the contents of the paths that exist
  anchors,    \* anchors minted so far: an anchor is the number of its call
  analyses,   \* runs of the pipeline so far; they tell their alerts apart
  minted,     \* history: the tasks an analysis was given
  saved,      \* history: by task, the findings the database accepted from it
  blind       \* history: tasks recovered while their findings could not be read

vars == <<memory, order, db, disk, anchors, analyses, minted, saved, blind>>

ASSUME EngineAssumption ==
  /\ MaxTasks \in Nat \ {0}
  /\ \A c \in DOMAIN Files : \A a \in ToSet(Files[c].raised) : DOMAIN a = {"rule", "session"}
  /\ \A drafts \in Drafts : drafts \in Seq(ToSet(drafts))

FileTables == [c \in DOMAIN Files |-> Tables(Files[c].blocks)]

-----------------------------------------------------------------------------
(* The store of a task                                                      *)

\* What an analysis leaves in memory; restored counts the findings that were
\* attached, ledgerRead says that the persisted ledger could be read (history).
NewStore(path, run) ==
  LET raised == Files[disk[path]].raised
  IN  [source |-> path, content |-> disk[path],
       alerts |-> [i \in DOMAIN raised |->
                    [id |-> <<run, i>>, rule |-> raised[i].rule, session |-> raised[i].session]],
       findings |-> <<>>, ledger |-> EmptyLedger, meta |-> None, restored |-> 0, ledgerRead |-> TRUE]

TablesOf(store) == FileTables[store.content]

\* insert_task: the oldest tasks make room.
Kept == IF Len(order) < MaxTasks THEN order ELSE SubSeq(order, Len(order) - MaxTasks + 2, Len(order))

WithStore(t, store) == [u \in ToSet(Kept) \cup {t} |-> IF u = t THEN store ELSE memory[u]]

\* Regression: the order keeps the evicted tasks.
InsertedLeavingOrder(t, store) == [memory |-> WithStore(t, store), order |-> Append(order, t)]

Inserted(t, store) == [memory |-> WithStore(t, store), order |-> Append(Kept, t)]

\* Regression: findings are not attached.
AttachedWithoutFindings(store, t, findingsRead, ledgerRead) ==
  [store EXCEPT !.ledger = IF ledgerRead THEN ListToolCalls(db, t) ELSE @, !.ledgerRead = ledgerRead]

\* Regression: the ledger is attached only if there are findings.
AttachedLedgerWithFindings(store, t, findingsRead, ledgerRead) ==
  LET rows == IF findingsRead THEN ListFindings(db, t) ELSE <<>>
  IN  [store EXCEPT !.findings = rows, !.restored = Len(rows), !.ledgerRead = ledgerRead,
                    !.ledger = IF ledgerRead /\ rows # <<>> THEN ListToolCalls(db, t) ELSE @]

\* attach_persisted_findings and attach_persisted_ledger; a read that fails
\* attaches nothing.
Attached(store, t, findingsRead, ledgerRead) ==
  LET rows == IF findingsRead THEN ListFindings(db, t) ELSE <<>>
  IN  [store EXCEPT !.findings = rows, !.restored = Len(rows), !.ledgerRead = ledgerRead,
                    !.ledger = IF ledgerRead THEN ListToolCalls(db, t) ELSE @]

Recoverable(t) ==
  t \notin DOMAIN memory /\ t \in DOMAIN db.tasks /\ db.tasks[t].source \in DOMAIN disk

\* The worker after t was rebuilt from its row and the capture; f and l say
\* whether its findings and its ledger could be read.
Rebuilt(t, f, l) ==
  LET worker == Inserted(t, Attached(NewStore(db.tasks[t].source, analyses + 1), t, f, l))
  IN  [memory |-> worker.memory, order |-> worker.order, analyses |-> analyses + 1,
       blind |-> IF f THEN blind ELSE blind \cup {t}]

\* prime_cold_task: what the worker may hold when it comes to handle a call on t.
Primed(t) ==
  IF ~ Recoverable(t) THEN {[memory |-> memory, order |-> order, analyses |-> analyses, blind |-> blind]}
  ELSE {Rebuilt(t, f, l) : f \in {r \in BOOLEAN : analyses < MaxAnalyses}, l \in BOOLEAN}

-----------------------------------------------------------------------------
(* What the results of the query methods let a finding cite                 *)

Answer(refs, numbers) == [refs |-> refs, numbers |-> numbers]

Session(n) == <<"session", n>>
PacketRef(i) == <<"packet", i>>

CaptureSummary(store) ==
  LET index == TablesOf(store).index
      value == [packets |-> Len(index), sessions |-> Len(TablesOf(store).sessions),
                alerts |-> Len(store.alerts), decode_errors |-> TablesOf(store).errors,
                truncated_packets |-> TablesOf(store).truncated]
  IN  Answer({}, [f \in {<<name>> : name \in DOMAIN value} |-> value[f[1]]])

\* The packets of each protocol, of every layer asked for.
ProtocolStats(store, q) ==
  LET layers == LayersOf(q.layer)
      rows   == UNION {ToSet(ProtocolTop(TablesOf(store), layers[i], q.top)) : i \in DOMAIN layers}
  IN  IF q.layer \notin KnownLayers THEN None
      ELSE Answer({}, [f \in {<<row[2], "packets">> : row \in rows} |->
                         TablesOf(store).stats[CHOOSE row \in rows : row[2] = f[1]].packets])

ConversationList(store, q) ==
  LET rows == Conversations(TablesOf(store), q)
  IN  Answer({Session(n) : n \in ToSet(rows)},
             (<<"count">> :> Len(rows))
             @@ [f \in {<<n, "packets">> : n \in ToSet(rows)} |-> TablesOf(store).sessions[f[1]].packets])

PacketList(store, q) ==
  LET hits == FilterPackets(TablesOf(store), q.filter, q.limit)
  IN  Answer({PacketRef(i) : i \in ToSet(hits)}, <<"count">> :> Len(hits))

\* Every index that was asked for can be cited, even one that has no packet.
PacketDetails(store, indices) ==
  IF NeedsPayload(TablesOf(store), indices) /\ store.source \notin DOMAIN disk THEN None
  ELSE Answer({PacketRef(i) : i \in indices},
              <<"count">> :> Cardinality(Inspected(TablesOf(store), indices)))

\* The replay reads the file as it is now.
StreamReplay(store, q) ==
  LET sessions == TablesOf(store).sessions
  IN  IF \/ q.session \notin DOMAIN sessions \/ store.source \notin DOMAIN disk
         \/ sessions[q.session].key.proto # "tcp" \/ q.dir \notin {"c2s", "s2c"}
      THEN None
      ELSE Answer({Session(q.session)},
                  <<"bytes">> :> ReplayedBytes(PacketsOf(Files[disk[store.source]].blocks),
                                               sessions[q.session], q.dir, q.limit))

AlertRefs(alerts) ==
  UNION {{<<"alert", a.id>>, <<"rule", a.rule>>}
         \cup (IF a.session = None THEN {} ELSE {Session(a.session)}) : a \in alerts}

FilteredAlerts(store, rule) == {a \in ToSet(store.alerts) : rule # None => a.rule = rule}

AlertList(store, rule) ==
  LET alerts == FilteredAlerts(store, rule)
  IN  Answer(AlertRefs(alerts), <<"count">> :> Cardinality(alerts))

History(store, q) ==
  CASE q.kind = "alerts"   -> AlertList(store, None)
    [] q.kind = "findings" ->
         LET n == Min({Len(store.findings), Max({q.limit, 1})})
         IN  Answer({<<"finding", store.findings[i].id>> : i \in 1 .. n}, <<"count">> :> n)
    [] q.kind = "sessions" ->
         LET rows == Conversations(TablesOf(store), q.listing)
         IN  Answer({Session(n) : n \in ToSet(rows)}, <<"count">> :> Len(rows))
    [] q.kind = "trace"    ->
         Answer({<<"anchor", a>> : a \in DOMAIN store.ledger},
                <<"count">> :> Cardinality(DOMAIN store.ledger))
    [] OTHER               -> None

Artifacts(store) ==
  Answer({}, (<<"alert_count">> :> Len(store.alerts)) @@ (<<"finding_count">> :> Len(store.findings))
             @@ (<<"session_count">> :> Len(TablesOf(store).sessions)))

\* The result of query method m with arguments q, or None for an error.
ResultOf(m, store, q) ==
  CASE m = "get_capture_summary" -> CaptureSummary(store)
    [] m = "get_protocol_stats"  -> ProtocolStats(store, q)
    [] m = "get_conversations"   -> ConversationList(store, q)
    [] m = "filter_packets"      -> PacketList(store, q)
    [] m = "inspect_packets"     -> PacketDetails(store, q)
    [] m = "reconstruct_stream"  -> StreamReplay(store, q)
    [] m = "check_alerts"        -> AlertList(store, q)
    [] m = "query_history"       -> History(store, q)
    [] m = "get_task_artifacts"  -> Artifacts(store)
    [] m = "validate_finding"    -> Answer({}, <<>>)

-----------------------------------------------------------------------------
(* Actions *)

\* Regression: anchors are numbered within their task.
ToolResultNumberedByTask(t, store, method, answer) ==
  [store EXCEPT !.ledger = Issue(@, Cardinality(DOMAIN @) + 1,
     [task |-> t, method |-> method, refs |-> answer.refs, numbers |-> answer.numbers])]

\* tool_result: mints the anchor of a result and records what it lets one cite.
ToolResult(t, store, method, answer) ==
  [store EXCEPT !.ledger = Issue(@, anchors + 1,
     [task |-> t, method |-> method, refs |-> answer.refs, numbers |-> answer.numbers])]

Adopt(p) == order' = p.order /\ analyses' = p.analyses /\ blind' = p.blind

\* A query on a task that is, or can be brought, in memory.  One that fails
\* still leaves the recovered task behind, so it is of interest after the last
\* anchor as well.
Query(t, m) ==
  /\ anchors < MaxAnchors \/ Recoverable(t)
  /\ \E p \in Primed(t), q \in Requests[m] :
       /\ t \in DOMAIN p.memory
       /\ LET result == ResultOf(m, p.memory[t], q)
          IN  \/ /\ result = None
                 /\ memory' = p.memory /\ UNCHANGED anchors
              \/ /\ result # None /\ anchors < MaxAnchors
                 /\ memory' = [p.memory EXCEPT ![t] = ToolResult(t, @, m, result)]
                 /\ anchors' = anchors + 1
       /\ Adopt(p)
  /\ UNCHANGED <<db, disk, minted, saved>>

\* analyze_file: the task is stored, or not, and then kept in memory.
AnalyzeFile(t, path) ==
  /\ t \notin minted /\ analyses < MaxAnalyses /\ path \in DOMAIN disk
  /\ LET store == NewStore(path, analyses + 1)
     IN  /\ db' \in {db} \cup Interrupted(db, t, store) \cup Persisted(db, t, store)
         /\ memory' = Inserted(t, store).memory /\ order' = Inserted(t, store).order
  /\ analyses' = analyses + 1 /\ minted' = minted \cup {t}
  /\ UNCHANGED <<disk, anchors, saved, blind>>

\* `packetsage analyze --db`: another process analyses and stores a task, a
\* new one or, with --task-id, one that is known.
CliAnalyze(t, path) ==
  /\ analyses < MaxAnalyses /\ path \in DOMAIN disk
  /\ LET store == NewStore(path, analyses + 1)
     IN  db' \in Interrupted(db, t, store) \cup Persisted(db, t, store)
  /\ analyses' = analyses + 1 /\ minted' = minted \cup {t}
  /\ UNCHANGED <<memory, order, disk, anchors, saved, blind>>

\* The drafts of a submission that neither an unknown anchor nor the validator
\* refuses; none of them changes the ledger the next is judged by.
Accepted(t, store, drafts) ==
  {i \in DOMAIN drafts : /\ UnknownAnchors(drafts[i], store.ledger) = {}
                         /\ Validate(drafts[i], store.ledger, t).status # "rejected"}

\* store_finding.
StoredFinding(id, draft, outcome) ==
  [id |-> id, title |-> draft.title, summary |-> draft.title, basis |-> outcome.basis,
   evidence |-> draft.evidence, status |-> outcome.status]

\* The findings made of the accepted drafts, numbered after those the store holds.
NewFindings(t, store, drafts) ==
  LET accepted == InOrder(Accepted(t, store, drafts))
  IN  [n \in DOMAIN accepted |->
         StoredFinding(Len(store.findings) + n, drafts[accepted[n]],
                       Validate(drafts[accepted[n]], store.ledger, t))]

\* How often a submission cites what nobody issued.
UnknownCited(ledger, drafts) ==
  FoldLeft(LAMBDA n, d : n + Cardinality(UnknownAnchors(d, ledger)), 0, drafts)

\* What the answer to a submission cites and counts.
SubmissionAnswer(new, ledger, drafts) ==
  Answer({<<"finding", f.id>> : f \in new}
           \cup UNION {{<<"anchor", f.evidence[i].anchor>> : i \in DOMAIN f.evidence} : f \in new},
         (<<"stored">> :> Cardinality(new)) @@ (<<"rejected">> :> Len(drafts) - Cardinality(new))
           @@ (<<"unknown_tc_id">> :> UnknownCited(ledger, drafts)))

\* submit_finding: the task is stored again with its findings; a failure to do
\* so is only logged.
SubmitFinding(t) ==
  /\ anchors < MaxAnchors
  /\ \E p \in Primed(t), drafts \in Drafts :
       /\ t \in DOMAIN p.memory
       /\ LET old   == p.memory[t]
              new   == NewFindings(t, old, drafts)
              store == [old EXCEPT !.findings = @ \o new]
          IN  /\ \/ /\ db' \in {db} \cup Interrupted(db, t, store)
                    /\ UNCHANGED saved
                 \/ /\ db' \in Persisted(db, t, store)
                    /\ saved' = [saved EXCEPT ![t] = @ \cup ToSet(store.findings)]
              /\ memory' = [p.memory EXCEPT ![t] =
                   ToolResult(t, store, "submit_finding", SubmissionAnswer(ToSet(new), old.ledger, drafts))]
       /\ Adopt(p)
  /\ anchors' = anchors + 1
  /\ UNCHANGED <<disk, minted>>

\* submit_report_meta: the run and the whole ledger are recorded.  The run id is the
\* caller's: the agent's run on this task, the last run of the sidecar, whatever its
\* task, or the empty one of `report` in a new engine.
SubmitReportMeta(t) ==
  /\ anchors < MaxAnchors
  /\ \E p \in Primed(t), run \in Runs :
       /\ t \in DOMAIN p.memory
       /\ LET store == [p.memory[t] EXCEPT !.meta = run]
          IN  /\ db' \in Recorded(db, t, store)
              /\ memory' = [p.memory EXCEPT ![t] =
                              ToolResult(t, store, "submit_report_meta", Answer({}, <<>>))]
       /\ Adopt(p)
  /\ anchors' = anchors + 1
  /\ UNCHANGED <<disk, minted, saved>>

\* The worker dies, between two requests or in the middle of one (its
\* statements are then those of a request whose later ones failed), and a new
\* one is started on the same database.
Restart ==
  /\ DOMAIN memory # {}
  /\ memory' = <<>> /\ order' = <<>>
  /\ UNCHANGED <<db, disk, anchors, analyses, minted, saved, blind>>

RemoveCapture(path) ==
  /\ path \in DOMAIN disk
  /\ disk' = [p \in DOMAIN disk \ {path} |-> disk[p]]
  /\ UNCHANGED <<memory, order, db, anchors, analyses, minted, saved, blind>>

ReplaceCapture(path) ==
  /\ \E c \in DOMAIN Files : disk' = [p \in DOMAIN disk \cup {path} |-> IF p = path THEN c ELSE disk[p]]
  /\ UNCHANGED <<memory, order, db, anchors, analyses, minted, saved, blind>>

Init ==
  /\ memory = <<>> /\ order = <<>> /\ db = EmptyDatabase /\ anchors = 0 /\ analyses = 0
  /\ disk \in [Paths -> DOMAIN Files]
  /\ minted = {} /\ saved = [t \in Tasks |-> {}] /\ blind = {}

Next ==
  \/ \E t \in Tasks :
       \/ \E m \in DOMAIN Requests : Query(t, m)
       \/ \E path \in Paths : AnalyzeFile(t, path) \/ CliAnalyze(t, path)
       \/ SubmitFinding(t) \/ SubmitReportMeta(t)
  \/ Restart
  \/ \E path \in Paths : RemoveCapture(path) \/ ReplaceCapture(path)

Spec == Init /\ [][Next]_vars

-----------------------------------------------------------------------------
(* Properties *)

\* The cache holds the tasks of its order, each once, within its bound, and the
\* database's foreign keys name rows.
TypeOK ==
  /\ ToSet(order) = DOMAIN memory /\ Cardinality(DOMAIN memory) = Len(order)
  /\ Len(order) <= MaxTasks /\ DOMAIN memory \cup DOMAIN db.tasks \subseteq minted
  /\ \A t \in DOMAIN memory : DOMAIN memory[t].ledger \subseteq 1 .. anchors
  /\ \A a \in DOMAIN db.calls : db.calls[a].run \in DOMAIN db.runs
  /\ \A r \in DOMAIN db.runs : db.runs[r] \in DOMAIN db.tasks

\* A finding accepted by this worker names only what the results it cites have
\* shown, for as long as the worker holds the task.
AcceptedGrounded ==
  \A t \in DOMAIN memory :
    LET store == memory[t]
    IN  \A i \in store.restored + 1 .. Len(store.findings) :
          /\ CitesEvidence(store.findings[i])
          /\ CitesIssued(store.findings[i], store.ledger, t)
          /\ CitesReachable(store.findings[i], store.ledger)

Holds(t, f) == \E i \in DOMAIN memory[t].findings : memory[t].findings[i] = f

\* A finding that reached the database is there whenever its task is in memory,
\* across evictions and restarts, unless another task stored findings under the
\* same numbers, the worker once could not read them, or the task has more of
\* them than a recovery asks for.
LostOnlyByCollision ==
  \A t \in DOMAIN memory :
    /\ t \notin blind
    /\ \A u \in Tasks \ {t} : saved[u] = {}
    /\ Cardinality(FindingsOf(db, t)) <= FindingLimit
    => \A f \in saved[t] : Holds(t, f)

\* The method, entities and numbers of a call, whichever task it is listed for.
Facts(entry) == <<entry.method, entry.refs, entry.numbers>>

\* The calls made on a task and recorded with its runs can be cited again after a
\* recovery, with the facts they were recorded with, unless more calls are listed for
\* the task than a recovery asks for.
LedgerCoversDatabase ==
  \A t \in DOMAIN memory : memory[t].ledgerRead /\ Cardinality(CallsOf(db, t)) <= CallLimit =>
    \A a \in CallsOf(db, t) \ Misfiled(db) :
      a \in DOMAIN memory[t].ledger /\ Facts(memory[t].ledger[a]) = Facts(db.calls[a].entry)

\* An anchor means one thing: it is in the ledger of one task, unless its call was
\* recorded under a run of another, and the call recorded under it, by whichever
\* worker, is that call, made on this task or listed for it.
AnchorsUnambiguous ==
  \A t \in DOMAIN memory : \A a \in DOMAIN memory[t].ledger :
    /\ \A u \in DOMAIN memory \ {t} : a \in DOMAIN memory[u].ledger => a \in Misfiled(db)
    /\ a \in DOMAIN db.calls =>
         /\ Facts(db.calls[a].entry) = Facts(memory[t].ledger[a])
         /\ t \in {db.calls[a].entry.task, db.runs[db.calls[a].run]}

\* serve.rs, submit_finding: "the findings have to outlive this process": what
\* was written through is what the database lists for the task.
FindingsSurvive == \A t \in Tasks : saved[t] \subseteq ToSet(ListFindings(db, t))
=============================================================================

------------------------------- MODULE Storage -------------------------------
(***************************************************************************)
(* The SQLite repository of packetsage-storage (sqlite.rs, models.rs and   *)
(* the schema under migrations/) and the mapping of a task onto it         *)
(* (packetsage-cli/src/persist.rs).                                        *)
(*                                                                         *)
(* A database is [tasks, alerts, findings, runs, calls], each table a      *)
(* function from its primary key to the columns that are read back.  The   *)
(* rows of sessions and captures are written but never read by the engine, *)
(* and are left out with the columns nothing reads.                        *)
(***************************************************************************)
EXTENDS Evidence, SequencesExt

CONSTANTS
  FindingLimit,   \* rows cold recovery asks list_findings for
  CallLimit       \* rows cold recovery asks list_tool_calls_for_task for

ASSUME StorageAssumption == FindingLimit \in Nat /\ CallLimit \in Nat

EmptyDatabase == [tasks |-> <<>>, alerts |-> <<>>, findings |-> <<>>, runs |-> <<>>, calls |-> <<>>]

\* An insert of rows, by key: a row whose key is taken stays as it is.
InsertOrIgnore(table, rows) ==
  [k \in DOMAIN table \cup DOMAIN rows |-> IF k \in DOMAIN table THEN table[k] ELSE rows[k]]

-----------------------------------------------------------------------------
(* Statements.  Each is its own transaction; a foreign key that names no    *)
(* row refuses it.                                                          *)

\* A second upsert of a task keeps the source it was first stored with.
UpsertTask(db, t, source, sha) ==
  [db EXCEPT !.tasks = InsertOrIgnore(@, [u \in {t} |-> [source |-> source, sha |-> sha]])]

UpsertAlerts(db, t, alerts) ==
  [db EXCEPT !.alerts = InsertOrIgnore(@, [id \in {a.id : a \in ToSet(alerts)} |->
     [task |-> t, alert |-> CHOOSE a \in ToSet(alerts) : a.id = id]])]

\* The row left under an id by the findings numbered so, one after the other:
\* the content of the last, and the task and title the row was first given.
UpsertedFinding(table, t, findings, id) ==
  LET same  == {i \in DOMAIN findings : findings[i].id = id}
      known == id \in DOMAIN table
  IN  [task    |-> IF known THEN table[id].task ELSE t,
       finding |-> [findings[Max(same)] EXCEPT !.title =
                      IF known THEN table[id].finding.title ELSE findings[Min(same)].title]]

UpsertFindings(db, t, findings) ==
  LET ids == {findings[i].id : i \in DOMAIN findings}
  IN  [db EXCEPT !.findings = [id \in DOMAIN @ \cup ids |->
         IF id \in ids THEN UpsertedFinding(@, t, findings, id) ELSE @[id]]]

\* A run id that is known keeps the task it was first recorded with.
UpsertRun(db, run, t) == [db EXCEPT !.runs = InsertOrIgnore(@, [r \in {run} |-> t])]

\* The calls of a ledger under some of its anchors, each a statement.
InsertToolCalls(db, run, ledger, anchors) ==
  [db EXCEPT !.calls = InsertOrIgnore(@, [a \in anchors |-> [run |-> run, entry |-> ledger[a]]])]

-----------------------------------------------------------------------------
(* Queries *)

Rank(keys, k) == Cardinality({j \in keys : j < k})

\* ORDER BY the key.
InOrder(keys) == [i \in 1 .. Cardinality(keys) |-> CHOOSE k \in keys : Rank(keys, k) = i - 1]

\* ORDER BY the key LIMIT limit.
Limited(keys, limit) == {k \in keys : Rank(keys, k) < limit}

FindingsOf(db, t) == {id \in DOMAIN db.findings : db.findings[id].task = t}

ListFindings(db, t) ==
  LET ids == InOrder(Limited(FindingsOf(db, t), FindingLimit))
  IN  [i \in DOMAIN ids |-> db.findings[ids[i]].finding]

\* The calls of every run of the task.
CallsOf(db, t) == {a \in DOMAIN db.calls : db.runs[db.calls[a].run] = t}

\* ... as a ledger.  A row does not say which task was asked, so all of them become
\* calls of t.
ListToolCalls(db, t) ==
  [a \in Limited(CallsOf(db, t), CallLimit) |->
     [task |-> t, method |-> db.calls[a].entry.method, refs |-> db.calls[a].entry.refs,
      numbers |-> db.calls[a].entry.numbers]]

\* Calls listed for another task than the one they were made on (history: the task
\* of an entry is not stored).
Misfiled(db) == {a \in DOMAIN db.calls : db.runs[db.calls[a].run] # db.calls[a].entry.task}

-----------------------------------------------------------------------------
(* Writing a task is a sequence of statements, of which only the first ones *)
(* have run when one fails or the process dies.  These are the databases    *)
(* that may be left behind.                                                 *)

\* The run and the calls of its ledger: a new run is refused if its task has no row.
Recorded(db, t, store) ==
  {db} \cup
    {InsertToolCalls(UpsertRun(db, store.meta, t), store.meta, store.ledger, Limited(DOMAIN store.ledger, n))
       : n \in IF t \in DOMAIN db.tasks \/ store.meta \in DOMAIN db.runs
              THEN 0 .. Cardinality(DOMAIN store.ledger) ELSE {}}

TaskStored(db, t, store) == UpsertTask(db, t, store.source, store.content)

AlertsStored(db, t, store) == UpsertAlerts(TaskStored(db, t, store), t, store.alerts)

\* persist of persist.rs, ended before the findings were stored ...
Interrupted(db, t, store) == {TaskStored(db, t, store), AlertsStored(db, t, store)}

\* ... and after: the run follows if it is known.
Persisted(db, t, store) ==
  LET stored == UpsertFindings(AlertsStored(db, t, store), t, store.findings)
  IN  IF store.meta = None THEN {stored} ELSE Recorded(stored, t, store)
=============================================================================

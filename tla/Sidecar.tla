------------------------------- MODULE Sidecar -------------------------------
(***************************************************************************)
(* The agent process as packetsage-agent serve runs it (serve.py): the     *)
(* main thread reads one command at a time from stdin and answers it, a    *)
(* run has a thread of its own, and the two share stdout (one lock, one    *)
(* frame at a time), `_active`, and the engine behind LockedClient.        *)
(*                                                                         *)
(* Command n is the n-th one read; a run is named by the command that      *)
(* started it.  What a run does between its frames is AgentLoop's matter:  *)
(* here it calls the engine, emits events, and finishes or hangs.          *)
(***************************************************************************)
EXTENDS Integers, Sequences, FiniteSets

CONSTANTS
  MaxCommands,   \* bound of the model: commands read from stdin
  MaxEvents      \* bound of the model: events of one run besides its ends

ASSUME SidecarAssumption == MaxCommands \in Nat \ {0} /\ MaxEvents \in Nat

NoRun == 0
Runs  == 1 .. MaxCommands
MainThread == MaxCommands + 1

\* What a frame can ask for: `old` is a hello of another protocol version, `junk` all
\* that is refused unread.
Commands == {"hello", "old", "run", "cancel", "status", "report", "shutdown", "junk"}

VARIABLES
  main, command, read,    \* where the main thread is, on which command, the n-th
  welcome, fatal,         \* Sidecar._welcome (is set), _fatal
  active,                 \* Sidecar._active
  seen_active,            \* the main thread's local `active`
  run_thread,             \* per run: where its thread is
  done, finalize,         \* per run: run.done, and the agent's `interrupted`
  rpc_lock,               \* who holds LockedClient's lock: a run, MainThread, NoRun
  calling,                \* threads inside a call of the engine client
  engine,                 \* the engine client has not been closed
  acks,                   \* history: the answers to each command, "ok" or "error"
  frames,                 \* history: per run, the kinds of frames written about it
  late                    \* history: the grace of shutdown ran out

session == <<welcome, fatal, active, seen_active>>
runs    == <<run_thread, done, finalize>>
rpc     == <<rpc_lock, calling>>
output  == <<acks, frames>>
vars    == <<main, command, read, session, runs, rpc, engine, output, late>>

Live(r) == r # NoRun /\ ~done[r]

Ack(kind) == acks' = [acks EXCEPT ![read] = Append(@, kind)]

Wrote(r, kind) == frames' = [frames EXCEPT ![r] = Append(@, kind)]

-----------------------------------------------------------------------------
(* The main thread: serve_forever and handle_line *)

ReadCommand ==
  /\ main = "read" /\ read < MaxCommands
  /\ read' = read + 1
  /\ command' \in Commands
  /\ main' = "handle"
  /\ UNCHANGED <<session, runs, rpc, engine, output, late>>

\* End of stdin, whatever was being asked for.
EndOfInput ==
  /\ main = "read"
  /\ main' = "closing"
  /\ UNCHANGED <<command, read, session, runs, rpc, engine, output, late>>

\* Answers the command with an error and reads on.
Refused ==
  /\ Ack("error") /\ main' = "read"
  /\ UNCHANGED <<command, read, welcome, active, seen_active, runs, rpc, engine, frames, late>>

\* Bad frames, and commands the session does not accept (yet).
Refuse ==
  /\ main = "handle"
  /\ command = "junk" \/ (command \notin {"hello", "old", "shutdown"} /\ (fatal \/ ~welcome))
  /\ Refused /\ UNCHANGED fatal

Mismatch ==
  /\ main = "handle" /\ command = "old"
  /\ Refused /\ fatal' = TRUE

Hello ==
  /\ main = "handle" /\ command = "hello"
  /\ welcome' = TRUE /\ Ack("ok") /\ main' = "event"
  /\ UNCHANGED <<command, read, fatal, active, seen_active, runs, rpc, engine, frames, late>>

\* The event that follows the answer of hello and of report.  What goes wrong in a
\* handler is an error answer, also when the command has been answered already.
EmitAfterAck ==
  /\ main = "event" /\ main' = "read"
  /\ Ack("error") \/ UNCHANGED acks
  /\ UNCHANGED <<command, read, session, runs, rpc, engine, frames, late>>

Accepted(cmd) == main = "handle" /\ command = cmd /\ welcome /\ ~fatal

\* _start_run: refused while a run is going on, or for its parameters or settings.
StartRun ==
  /\ Accepted("run")
  /\ seen_active' = active
  /\ \/ /\ Ack("error") /\ main' = "read"
     \/ /\ ~Live(active)
        /\ main' = "task" /\ UNCHANGED acks
  /\ UNCHANGED <<command, read, welcome, fatal, active, runs, rpc, engine, frames, late>>

\* The RPCs of the main thread (_require_task, the report) go through the lock.
MainLock ==
  /\ main = "task" /\ rpc_lock = NoRun
  /\ rpc_lock' = MainThread /\ calling' = calling \cup {MainThread}
  /\ main' = "rpc"
  /\ UNCHANGED <<command, read, session, runs, engine, output, late>>

\* Regression: a failed check is answered, and the run started all the same.
MainUnlockGoingOn ==
  /\ main = "rpc"
  /\ rpc_lock' = NoRun /\ calling' = calling \ {MainThread}
  /\ \/ Ack("error") /\ main' = IF command = "run" THEN "activate" ELSE "read"
     \/ command = "run" /\ main' = "activate" /\ UNCHANGED acks
     \/ command = "report" /\ main' = "task" /\ UNCHANGED acks
     \/ command = "report" /\ main' = "event" /\ Ack("ok")
  /\ UNCHANGED <<command, read, session, runs, engine, frames, late>>

\* The call ends: with an error, the next one, or what the command was about.
MainUnlock ==
  /\ main = "rpc"
  /\ rpc_lock' = NoRun /\ calling' = calling \ {MainThread}
  /\ \/ Ack("error") /\ main' = "read"
     \/ command = "run" /\ main' = "activate" /\ UNCHANGED acks
     \/ command = "report" /\ main' = "task" /\ UNCHANGED acks
     \/ command = "report" /\ main' = "event" /\ Ack("ok")
  /\ UNCHANGED <<command, read, session, runs, engine, frames, late>>

Activate ==
  /\ main = "activate" /\ main' = "ack"
  /\ active' = read
  /\ UNCHANGED <<command, read, welcome, fatal, seen_active, runs, rpc, engine, output, late>>

AckRun ==
  /\ main = "ack" /\ main' = "announce"
  /\ Ack("ok") /\ Wrote(read, "ack")
  /\ UNCHANGED <<command, read, session, runs, rpc, engine, late>>

\* Regression: the thread is started before run_started is written.
StartThreadFirst ==
  /\ main = "announce"
  /\ \/ /\ run_thread[read] = "none"
        /\ run_thread' = [run_thread EXCEPT ![read] = "working"]
        /\ UNCHANGED <<main, frames>>
     \/ /\ run_thread[read] # "none"
        /\ Wrote(read, "started") /\ main' = "read"
        /\ UNCHANGED run_thread
  /\ UNCHANGED <<command, read, session, done, finalize, rpc, engine, acks, late>>

\* run_started is written, then the thread starts.  Either may fail: the run, accepted
\* before, is answered once more, with the error, and `_active` is left as it is.
Announce ==
  /\ main = "announce"
  /\ \/ Wrote(read, "started") /\ main' = "start" /\ UNCHANGED acks
     \/ Ack("error") /\ main' = "read" /\ UNCHANGED frames
  /\ UNCHANGED <<command, read, session, runs, rpc, engine, late>>

StartThread ==
  /\ main = "start" /\ main' = "read"
  /\ \/ run_thread' = [run_thread EXCEPT ![read] = "working"] /\ UNCHANGED acks
     \/ Ack("error") /\ UNCHANGED run_thread
  /\ UNCHANGED <<command, read, session, done, finalize, rpc, engine, frames, late>>

\* cancel: tells the agent if the run named is the live one, and answers anyway.
Cancel ==
  /\ Accepted("cancel")
  /\ \E r \in Runs \cup {NoRun} :
       finalize' = IF r = active /\ Live(r) THEN [finalize EXCEPT ![r] = TRUE] ELSE finalize
  /\ Ack("ok") /\ main' = "read"
  /\ UNCHANGED <<command, read, session, run_thread, done, rpc, engine, frames, late>>

\* Regression: the engine is probed during a run too.
ProbeAlways ==
  /\ Accepted("status")
  /\ seen_active' = active
  /\ calling' = calling \cup {MainThread} /\ main' = "probe"
  /\ UNCHANGED <<command, read, welcome, fatal, active, runs, rpc_lock, engine, output, late>>

\* status: the engine is pinged, without the lock, unless a run is going on or the
\* engine is known to be gone.
Status ==
  /\ Accepted("status")
  /\ seen_active' = active
  /\ \/ /\ ~Live(active)
        /\ calling' = calling \cup {MainThread} /\ main' = "probe"
        /\ UNCHANGED acks
     \/ Ack("ok") /\ main' = "read" /\ UNCHANGED calling
  /\ UNCHANGED <<command, read, welcome, fatal, active, runs, rpc_lock, engine, frames, late>>

StatusProbed ==
  /\ main = "probe"
  /\ calling' = calling \ {MainThread}
  /\ Ack("ok") /\ main' = "read"
  /\ UNCHANGED <<command, read, session, runs, rpc_lock, engine, frames, late>>

Report ==
  /\ Accepted("report")
  /\ main' = "task"
  /\ UNCHANGED <<command, read, session, runs, rpc, engine, output, late>>

Shutdown ==
  /\ main = "handle" /\ command = "shutdown"
  /\ Ack("ok") /\ main' = "closing"
  /\ UNCHANGED <<command, read, session, runs, rpc, engine, frames, late>>

-----------------------------------------------------------------------------
(* shutdown: lets the run finish, then closes the engine *)

\* Regression: asks the run to finish and does not wait for it.
AskOnly ==
  /\ main = "closing" /\ main' = "close"
  /\ seen_active' = active
  /\ finalize' = IF Live(active) THEN [finalize EXCEPT ![active] = TRUE] ELSE finalize
  /\ UNCHANGED <<command, read, welcome, fatal, active, run_thread, done, rpc, engine,
                 output, late>>

AskToFinish ==
  /\ main = "closing"
  /\ seen_active' = active
  /\ IF Live(active)
     THEN finalize' = [finalize EXCEPT ![active] = TRUE] /\ main' = "grace"
     ELSE main' = "close" /\ UNCHANGED finalize
  /\ UNCHANGED <<command, read, welcome, fatal, active, run_thread, done, rpc, engine,
                 output, late>>

\* Regression: waits for the run however long it takes.
WaitForRun ==
  /\ main = "grace" /\ done[seen_active]
  /\ main' = "close"
  /\ UNCHANGED <<command, read, session, runs, rpc, engine, output, late>>

\* SHUTDOWN_GRACE_S, or less if the run is done.
EndOfGrace ==
  /\ main = "grace" /\ main' = "close"
  /\ late' = (late \/ ~done[seen_active])
  /\ UNCHANGED <<command, read, session, runs, rpc, engine, output>>

CloseEngine ==
  /\ main = "close" /\ main' = "exit"
  /\ engine' = FALSE
  /\ UNCHANGED <<command, read, session, runs, rpc, output, late>>

\* The process exits; a thread still running goes with it.
Exit ==
  /\ main = "exit" /\ main' = "exited"
  /\ UNCHANGED <<command, read, session, runs, rpc, engine, output, late>>

-----------------------------------------------------------------------------
(* The thread of a run: _runner *)

Running(r) == main # "exited" /\ run_thread[r] # "none"

RunLock(r) ==
  /\ Running(r) /\ run_thread[r] = "working" /\ rpc_lock = NoRun
  /\ rpc_lock' = r /\ calling' = calling \cup {r}
  /\ run_thread' = [run_thread EXCEPT ![r] = "rpc"]
  /\ UNCHANGED <<main, command, read, session, done, finalize, engine, output, late>>

\* Regression: the lock is not given back.
RunUnlockKeepingLock(r) ==
  /\ Running(r) /\ run_thread[r] = "rpc"
  /\ calling' = calling \ {r}
  /\ run_thread' = [run_thread EXCEPT ![r] = "working"]
  /\ UNCHANGED <<main, command, read, session, done, finalize, rpc_lock, engine, output,
                 late>>

RunUnlock(r) ==
  /\ Running(r) /\ run_thread[r] = "rpc"
  /\ rpc_lock' = NoRun /\ calling' = calling \ {r}
  /\ run_thread' = [run_thread EXCEPT ![r] = "working"]
  /\ UNCHANGED <<main, command, read, session, done, finalize, engine, output, late>>

Event(r) ==
  /\ Running(r) /\ run_thread[r] = "working"
  /\ Cardinality({i \in DOMAIN frames[r] : frames[r][i] = "event"}) < MaxEvents
  /\ Wrote(r, "event")
  /\ UNCHANGED <<main, command, read, session, runs, rpc, engine, acks, late>>

\* The agent returns or raises: run_finished is written ...
Finish(r) ==
  /\ Running(r) /\ run_thread[r] = "working"
  /\ Wrote(r, "finished")
  /\ run_thread' = [run_thread EXCEPT ![r] = "clearing"]
  /\ UNCHANGED <<main, command, read, session, done, finalize, rpc, engine, acks, late>>

\* ... unless what comes before it, or the writing of it, raises: remembering the
\* conversation, building the payload, fitting the frame.  The thread is gone then, and
\* `_active` and `done` stay as they are.
Die(r) ==
  /\ Running(r) /\ run_thread[r] = "working"
  /\ run_thread' = [run_thread EXCEPT ![r] = "dead"]
  /\ UNCHANGED <<main, command, read, session, done, finalize, rpc, engine, output, late>>

\* After it, `_active` is cleared ...
Clear(r) ==
  /\ Running(r) /\ run_thread[r] = "clearing"
  /\ active' = IF active = r THEN NoRun ELSE active
  /\ run_thread' = [run_thread EXCEPT ![r] = "setting"]
  /\ UNCHANGED <<main, command, read, welcome, fatal, seen_active, done, finalize, rpc,
                 engine, output, late>>

\* ... and `done` is set.
SetDone(r) ==
  /\ Running(r) /\ run_thread[r] = "setting"
  /\ done' = [done EXCEPT ![r] = TRUE]
  /\ run_thread' = [run_thread EXCEPT ![r] = "over"]
  /\ UNCHANGED <<main, command, read, session, finalize, rpc, engine, output, late>>

-----------------------------------------------------------------------------
Init ==
  /\ main = "read" /\ command = "junk" /\ read = 0
  /\ welcome = FALSE /\ fatal = FALSE /\ active = NoRun /\ seen_active = NoRun
  /\ run_thread = [r \in Runs |-> "none"]
  /\ done = [r \in Runs |-> FALSE] /\ finalize = done
  /\ rpc_lock = NoRun /\ calling = {} /\ engine = TRUE
  /\ acks = [n \in Runs |-> <<>>] /\ frames = acks /\ late = FALSE

\* What the main thread does on its own, once a command has been read.
Main ==
  \/ Refuse \/ Mismatch \/ Hello \/ EmitAfterAck \/ StartRun \/ MainLock \/ MainUnlock
  \/ Activate \/ AckRun \/ Announce \/ StartThread
  \/ Cancel \/ Status \/ StatusProbed \/ Report \/ Shutdown
  \/ AskToFinish \/ EndOfGrace \/ CloseEngine \/ Exit

Runner(r) ==
  RunLock(r) \/ RunUnlock(r) \/ Event(r) \/ Finish(r) \/ Die(r) \/ Clear(r) \/ SetDone(r)

Next == ReadCommand \/ EndOfInput \/ Main \/ \E r \in Runs : Runner(r)

Spec == Init /\ [][Next]_vars

\* The main thread runs, a call of the engine ends (it has a timeout) and gives the
\* lock back, and a report has only so many calls; a run owes nothing.
FairSpec ==
  /\ Spec
  /\ WF_vars(Main)
  /\ SF_vars(MainLock) /\ SF_vars(MainUnlock /\ main' # "task")
  /\ \A r \in Runs : WF_vars(RunUnlock(r))

-----------------------------------------------------------------------------
(* Properties *)

TypeOK ==
  /\ main \in {"read", "handle", "task", "rpc", "activate", "ack", "announce", "start",
               "event", "probe", "closing", "grace", "close", "exit", "exited"}
  /\ command \in Commands /\ read \in 0 .. MaxCommands
  /\ welcome \in BOOLEAN /\ fatal \in BOOLEAN
  /\ active \in Runs \cup {NoRun} /\ seen_active \in Runs \cup {NoRun}
  /\ run_thread \in [Runs -> {"none", "working", "rpc", "clearing", "setting", "over",
                            "dead"}]
  /\ done \in [Runs -> BOOLEAN] /\ finalize \in [Runs -> BOOLEAN]
  /\ rpc_lock \in Runs \cup {MainThread, NoRun} /\ calling \subseteq Runs \cup {MainThread}
  /\ rpc_lock # NoRun => rpc_lock \in calling
  /\ engine \in BOOLEAN /\ late \in BOOLEAN
  /\ acks \in [Runs -> Seq({"ok", "error"})]
  /\ frames \in [Runs -> Seq({"ack", "started", "event", "finished"})]

\* What a client may rely on: no command is left without an answer when the next one is
\* read; the only second answer is the error of a command accepted before; and a run
\* whose last answer is an error is not going on behind it.
AnswersHold ==
  /\ main \in {"read", "closing"} => \A n \in 1 .. read : acks[n] # <<>>
  /\ \A n \in Runs : acks[n] \in {<<>>, <<"ok">>, <<"error">>, <<"ok", "error">>}
  /\ \A r \in Runs : run_thread[r] # "none" => acks[r] = <<"ok">>

Ongoing == {r \in Runs : \E i \in DOMAIN frames[r] :
              frames[r][i] = "started" /\ frames[r][Len(frames[r])] # "finished"}

\* A run begins with its ack, then run_started, and ends with run_finished, after
\* which nothing more is written about it, although two threads write its frames;
\* and no run starts before the end of the run before, although `_active` is read
\* without the lock.
RunFramed ==
  /\ \A r \in Runs : \A i \in DOMAIN frames[r] :
       /\ i = 1 <=> frames[r][i] = "ack"
       /\ i = 2 <=> frames[r][i] = "started"
       /\ frames[r][i] = "finished" => i = Len(frames[r])
  /\ Cardinality(Ongoing) <= 1

\* The engine client has one caller at a time: the ping of `status` goes past
\* LockedClient, and only the order in which a run ends keeps it apart from the run.
SingleCaller == Cardinality(calling) <= 1

\* "Lets the run write its run_finished before the engine is closed": unless the
\* grace ran out, no run loses its end to a shutdown or to the end of stdin.
FinishedBeforeClose ==
  ~engine /\ ~late => Ongoing = {}

\* The main thread always comes back to its input or exits, even while a run hangs:
\* neither the engine's lock nor a shutdown holds it for ever.
MainReturns == (main # "read") ~> (main \in {"read", "exited"})
=============================================================================

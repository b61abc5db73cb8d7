-------------------------------- MODULE Shell --------------------------------
(***************************************************************************)
(* The desktop shell around its agent process: the commands run_agent,     *)
(* cancel and restart_agent (commands.rs), the run slot they share with    *)
(* the frame sink and the exit callbacks (lib.rs), and the agent's side of *)
(* channel B reduced to what the shell can tell apart (serve.py).  A run   *)
(* is named by the call of run_agent that started it.                      *)
(*                                                                         *)
(* The children of JsonlChild are the agent processes started one after    *)
(* the other; the engine is only present by the callback of its exit.  The *)
(* commands that leave the slot alone are plain requests of JsonlChild.    *)
(***************************************************************************)
EXTENDS JsonlChild

CONSTANTS RunCalls, CancelCalls   \* the calls of run_agent, and of cancel

ASSUME ShellAssumption ==
  /\ Calls = RunCalls \cup CancelCalls /\ RunCalls \cap CancelCalls = {}
  /\ [id : Calls, event : {"ack", "error"}] \subseteq Frames     \* what an agent writes
  /\ [id : {NoId}, event : RunCalls] \subseteq Frames

NoRun == NoId

VARIABLES
  slot,      \* AppState.run: the run the shell believes is going on
  current,   \* AppState.sidecars.agent
  fresh,     \* agents started by a restart and not installed yet
  engine,    \* the engine's exit callback has not run yet
  active,    \* per agent: the run it is executing
  ended      \* history: runs the shell has seen the end of

shell == <<slot, current, fresh, engine, active, ended>>
vars  == <<childVars, shell>>

\* What an agent writes.
Ack(c)     == [id |-> c, event |-> "ack"]
Refusal(c) == [id |-> c, event |-> "error"]
Finished(r) == [id |-> NoId, event |-> r]

-----------------------------------------------------------------------------
(* The commands *)

\* run_agent: asks the agent of the moment.
RunAgent(c) ==
  /\ c \in RunCalls
  /\ Check(c, current)
  /\ UNCHANGED shell

\* run_agent resumes with the ack and records the run.
RecordRun(c) ==
  /\ c \in RunCalls /\ call[c] = "waiting" /\ got[c] = "ack"
  /\ Receive(c)
  /\ slot' = c
  /\ UNCHANGED <<current, fresh, engine, active, ended>>

\* cancel: refused at once when there is no run.
Cancel(c) ==
  /\ c \in CancelCalls /\ slot # NoRun
  /\ Check(c, current)
  /\ UNCHANGED shell

\* The rest of a request: what its thread does, and the timeout.
CallStep(c) ==
  /\ \/ Insert(c) \/ Write(c) \/ Forget(c)
     \/ (c \in CancelCalls \/ got[c] # "ack") /\ Receive(c)
  /\ UNCHANGED shell

CallExpires(c) == Expire(c) /\ UNCHANGED shell

\* restart_agent: starts a new agent ...
StartAgent(p) ==
  /\ Spawn(p)
  /\ fresh' = fresh \cup {p}
  /\ UNCHANGED <<slot, current, engine, active, ended>>

\* Regression: the old agent is not closed.
ReplaceAgentOnly(p) ==
  /\ p \in fresh /\ fresh' = fresh \ {p} /\ current' = p
  /\ UNCHANGED <<childVars, slot, engine, active, ended>>

\* ... and installs it in place of the old one, which is closed (replace_agent).
ReplaceAgent(p) ==
  /\ p \in fresh /\ fresh' = fresh \ {p} /\ current' = p
  /\ BeginClose(current)
  /\ UNCHANGED <<slot, engine, active, ended>>

-----------------------------------------------------------------------------
(* The callbacks of lib.rs *)

\* Regression: whatever answers no call is taken for a run_finished.
SinkAnyFrame(p) ==
  /\ Route(p)
  /\ LET runs == {f.event : f \in ForSink(p)}
     IN  IF runs = {} THEN UNCHANGED <<slot, ended>>
         ELSE slot' = NoRun /\ ended' = ended \cup runs
  /\ UNCHANGED <<current, fresh, engine, active>>

\* The sink: run_finished clears the slot, whichever run it names.
SinkFrame(p) ==
  /\ Route(p)
  /\ LET runs == {f.event : f \in ForSink(p)} \cap RunCalls
     IN  IF runs = {} THEN UNCHANGED <<slot, ended>>
         ELSE slot' = NoRun /\ ended' = ended \cup runs
  /\ UNCHANGED <<current, fresh, engine, active>>

\* The exit callback of an agent clears the slot, whatever it holds.
AgentExit(p) ==
  /\ Exited(p)
  /\ slot' = NoRun
  /\ ended' = ended \cup {r \in RunCalls : to[r] = p /\ got[r] = "ack"}
  /\ UNCHANGED <<current, fresh, engine, active>>

ReaderStep(p) ==
  \/ SinkFrame(p) \/ AgentExit(p)
  \/ (SeeEOF(p) \/ FailPending(p)) /\ UNCHANGED shell

\* The exit callback of the engine is the same one; with an empty slot it does nothing.
EngineExit ==
  /\ engine /\ slot # NoRun /\ engine' = FALSE
  /\ slot' = NoRun
  /\ UNCHANGED <<childVars, current, fresh, active, ended>>

\* What is left of an agent's run once its stdout may be gone.
RunOf(p) == active' = [active EXCEPT ![p] = IF speaks'[p] THEN @ ELSE NoRun]

CloseStep(p) ==
  /\ Close(p)
  /\ RunOf(p)
  /\ UNCHANGED <<slot, current, fresh, engine, ended>>

-----------------------------------------------------------------------------
(* The agent *)

\* run: refused while a run is going on (and for reasons the shell cannot see).
AgentRun(p) ==
  \E c \in RunCalls :
    /\ \/ active[p] = NoRun /\ Answer(p, Ack(c)) /\ active' = [active EXCEPT ![p] = c]
       \/ Answer(p, Refusal(c)) /\ UNCHANGED active
    /\ UNCHANGED <<slot, current, fresh, engine, ended>>

\* cancel: the run it names, if it is the active one, finishes sooner.
AgentCancel(p) ==
  \E c \in CancelCalls : Answer(p, Ack(c)) /\ UNCHANGED shell

AgentFinish(p) ==
  /\ active[p] # NoRun
  /\ Emit(p, Finished(active[p]))
  /\ active' = [active EXCEPT ![p] = NoRun]
  /\ UNCHANGED <<slot, current, fresh, engine, ended>>

\* The process goes away, and its run with it.
AgentDie(p) ==
  /\ Die(p)
  /\ RunOf(p)
  /\ UNCHANGED <<slot, current, fresh, engine, ended>>

-----------------------------------------------------------------------------
\* The shell starts with the first agent running.
Init ==
  /\ Started({1})
  /\ slot = NoRun /\ current = 1 /\ fresh = {} /\ engine = TRUE
  /\ active = [p \in Children |-> NoRun] /\ ended = {}

Next ==
  \/ \E c \in Calls : RunAgent(c) \/ RecordRun(c) \/ Cancel(c) \/ CallStep(c) \/ CallExpires(c)
  \/ \E p \in Children :
       \/ StartAgent(p) \/ ReplaceAgent(p) \/ ReaderStep(p) \/ CloseStep(p)
       \/ AgentRun(p) \/ AgentCancel(p) \/ AgentFinish(p) \/ AgentDie(p)
  \/ EngineExit

Spec == Init /\ [][Next]_vars

\* The threads of the shell run, and a run ends (its budget sees to that); calls,
\* timeouts, deaths and restarts are nobody's duty.
FairSpec ==
  /\ Spec
  /\ \A c \in RunCalls : WF_vars(RecordRun(c))
  /\ \A c \in Calls : WF_vars(CallStep(c))
  /\ \A p \in Children :
       WF_vars(ReaderStep(p)) /\ WF_vars(CloseStep(p)) /\ WF_vars(AgentFinish(p))

-----------------------------------------------------------------------------
(* Properties *)

TypeOK ==
  /\ ChildTypeOK
  /\ slot \in RunCalls \cup {NoRun} /\ current \in Children /\ fresh \subseteq Children
  /\ engine \in BOOLEAN /\ active \in [Children -> RunCalls \cup {NoRun}]
  /\ ended \subseteq RunCalls

\* M14, no orphan: every agent started is the current one, is about to be
\* installed, or is being closed, however restarts interleave.
NoOrphanAgent ==
  \A p \in Children :
    reader[p] # "unborn" => p = current \/ p \in fresh \/ closer[p] # "no"

\* ... and an agent that was replaced does go away, even one that ignores the
\* end of its stdin.
ReplacedAgentExits ==
  \A p \in Children : (closer[p] # "no") ~> (~hears[p] /\ ~speaks[p])

\* Every run whose ack was recorded is seen to end: by its run_finished or by
\* the exit of its agent, a restart included.
RecordedRunEnds == \A r \in RunCalls : (call[r] = "answered") ~> (r \in ended)

\* lib.rs:68: "the sidecar is gone, so no run can be going on; clear the run id".
\* But the callback also runs for the engine, and for an agent already replaced.
ClearedOnlyWithoutRun ==
  [][slot # NoRun /\ slot' = NoRun => \A p \in Children : active[p] # slot]_vars
=============================================================================

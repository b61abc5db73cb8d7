----------------------------- MODULE Shell_proofs -----------------------------
(* Theorems about the shell around its agents, for any number of calls and of *)
(* agents started one after the other.                                        *)
EXTENDS Shell, JsonlChild_proofs

-----------------------------------------------------------------------------
(* The shell drives its children as JsonlChild allows *)

\* The steps of a call are steps of its child ...
LEMMA CallsDrive ==
  ASSUME TypeOK, NEW c \in Calls,
         RunAgent(c) \/ RecordRun(c) \/ Cancel(c) \/ CallStep(c) \/ CallExpires(c),
         reader[current] # "unborn"
  PROVE  ChildNext
  <1>1. current \in Children
    BY DEF TypeOK
  <1>2. CASE RunAgent(c) \/ Cancel(c)
    BY <1>1, <1>2 DEF RunAgent, Cancel, ChildNext
  <1>3. CASE RecordRun(c) \/ CallStep(c) \/ CallExpires(c)
    BY <1>3 DEF RecordRun, CallStep, CallExpires, ChildNext
  <1>4. QED
    BY <1>2, <1>3

\* ... so are the frames a child writes ...
LEMMA AnswerDrives ==
  ASSUME NEW p \in Children, NEW f, f \in Frames, Answer(p, f) \/ Emit(p, f)
  PROVE  ChildNext
  BY DEF ChildNext

\* ... so are the steps of an agent's threads and of its replacement ...
LEMMA AgentsDrive ==
  ASSUME TypeOK, NEW p \in Children, reader[current] # "unborn",
         \/ StartAgent(p) \/ ReplaceAgent(p) \/ ReaderStep(p) \/ CloseStep(p) \/ AgentDie(p)
  PROVE  ChildNext
  <1>1. current \in Children
    BY DEF TypeOK
  <1>2. CASE StartAgent(p) \/ CloseStep(p) \/ AgentDie(p)
    BY <1>2 DEF StartAgent, CloseStep, AgentDie, ChildNext
  <1>3. CASE ReplaceAgent(p)
    BY <1>1, <1>3 DEF ReplaceAgent, ChildNext
  <1>4. CASE ReaderStep(p)
    <2>1. Reader(p)
      BY <1>4 DEF ReaderStep, SinkFrame, AgentExit, Reader
    <2>2. QED
      BY <2>1 DEF ChildNext
  <1>5. QED
    BY <1>2, <1>3, <1>4

\* ... and so are the steps of a run.
LEMMA RunsDrive ==
  ASSUME NEW p \in Children, TypeOK, AgentRun(p) \/ AgentCancel(p) \/ AgentFinish(p)
  PROVE  ChildNext
  <1>1. \A c \in Calls : Ack(c) \in Frames /\ Refusal(c) \in Frames
    BY ShellAssumption DEF Ack, Refusal
  <1>2. \A r \in RunCalls : Finished(r) \in Frames
    BY ShellAssumption DEF Finished
  <1>3. RunCalls \subseteq Calls /\ CancelCalls \subseteq Calls
    BY ShellAssumption
  <1>4. CASE AgentRun(p)
    BY <1>1, <1>3, <1>4, AnswerDrives DEF AgentRun
  <1>5. CASE AgentCancel(p)
    BY <1>1, <1>3, <1>5, AnswerDrives DEF AgentCancel
  <1>6. CASE AgentFinish(p)
    <2>1. active[p] \in RunCalls
      BY <1>6 DEF AgentFinish, TypeOK
    <2>2. QED
      BY <1>2, <1>6, <2>1, AnswerDrives DEF AgentFinish
  <1>7. QED
    BY <1>4, <1>5, <1>6

\* The agents that were started.
AgentsStarted == reader[current] # "unborn" /\ \A p \in fresh : reader[p] # "unborn"

ShellInv == TypeOK /\ ChildInv /\ AgentsStarted /\ NoOrphanAgent

\* The shell does to its children only what JsonlChild allows.
LEMMA DrivesChildren == ASSUME ShellInv, [Next]_vars PROVE [ChildNext]_childVars
  <1>1. CASE UNCHANGED vars
    BY <1>1 DEF vars
  <1>2. CASE EngineExit
    BY <1>2 DEF EngineExit
  <1>3. CASE \E c \in Calls :
               RunAgent(c) \/ RecordRun(c) \/ Cancel(c) \/ CallStep(c) \/ CallExpires(c)
    BY <1>3, CallsDrive DEF ShellInv, AgentsStarted
  <1>4. CASE \E p \in Children :
               StartAgent(p) \/ ReplaceAgent(p) \/ ReaderStep(p) \/ CloseStep(p) \/ AgentDie(p)
    BY <1>4, AgentsDrive DEF ShellInv, AgentsStarted
  <1>5. CASE \E p \in Children : AgentRun(p) \/ AgentCancel(p) \/ AgentFinish(p)
    BY <1>5, RunsDrive DEF ShellInv
  <1>6. QED
    BY <1>1, <1>2, <1>3, <1>4, <1>5 DEF Next

-----------------------------------------------------------------------------
(* Type correctness: the variables the shell adds *)

ShellType ==
  /\ slot \in RunCalls \cup {NoRun} /\ current \in Children /\ fresh \subseteq Children
  /\ engine \in BOOLEAN /\ active \in [Children -> RunCalls \cup {NoRun}]
  /\ ended \subseteq RunCalls

\* The types are those of the children and those of the shell's own variables.
LEMMA TypeParts == TypeOK <=> ChildTypeOK /\ ShellType
  BY DEF TypeOK, ShellType

\* A step of a call keeps the types of the shell's variables ...
LEMMA CallShellType ==
  ASSUME ShellType, NEW c \in Calls,
         RunAgent(c) \/ RecordRun(c) \/ Cancel(c) \/ CallStep(c) \/ CallExpires(c)
  PROVE  ShellType'
  BY DEF ShellType, shell, RunAgent, RecordRun, Cancel, CallStep, CallExpires

\* ... and so does a step of an agent.
LEMMA AgentShellType ==
  ASSUME ShellType, NEW p \in Children,
         \/ StartAgent(p) \/ ReplaceAgent(p) \/ ReaderStep(p) \/ CloseStep(p)
         \/ AgentRun(p) \/ AgentCancel(p) \/ AgentFinish(p) \/ AgentDie(p)
  PROVE  ShellType'
  <1> USE DEF ShellType, shell
  <1>1. CASE StartAgent(p)
    BY <1>1 DEF StartAgent
  <1>2. CASE ReplaceAgent(p)
    BY <1>2 DEF ReplaceAgent
  <1>3. CASE ReaderStep(p)
    BY <1>3 DEF ReaderStep, SinkFrame, AgentExit
  <1>4. CASE CloseStep(p) \/ AgentDie(p)
    BY <1>4 DEF CloseStep, AgentDie, RunOf
  <1>5. CASE AgentRun(p)
    BY <1>5 DEF AgentRun
  <1>6. CASE AgentCancel(p) \/ AgentFinish(p)
    BY <1>6 DEF AgentCancel, AgentFinish
  <1>7. QED
    BY <1>1, <1>2, <1>3, <1>4, <1>5, <1>6

\* Every step keeps the types.
LEMMA NextShellType ==
  ASSUME ShellInv, [Next]_vars PROVE TypeOK'
  <1>1. ChildTypeOK'
    BY DrivesChildren, NextType, TypeParts DEF ShellInv
  <1>2. ShellType
    BY TypeParts DEF ShellInv
  <1>3. ASSUME EngineExit \/ UNCHANGED vars PROVE ShellType'
    BY <1>2, <1>3 DEF EngineExit, vars, shell, ShellType
  <1>4. ShellType'
    BY <1>2, <1>3, CallShellType, AgentShellType DEF Next
  <1>5. QED
    BY <1>1, <1>4 DEF TypeOK, ShellType

-----------------------------------------------------------------------------
(* No agent is orphaned *)

\* Steps that start, install and close nothing.
LEMMA AgentsUntouched ==
  ASSUME ShellInv, UNCHANGED <<reader, closer, current, fresh>>
  PROVE  AgentsStarted' /\ NoOrphanAgent'
  BY DEF ShellInv, AgentsStarted, NoOrphanAgent

\* A call neither starts nor orphans an agent ...
LEMMA CallAgents ==
  ASSUME ShellInv, NEW c \in Calls,
         RunAgent(c) \/ RecordRun(c) \/ Cancel(c) \/ CallStep(c) \/ CallExpires(c)
  PROVE  AgentsStarted' /\ NoOrphanAgent'
  <1>1. UNCHANGED <<reader, closer, current, fresh>>
    BY DEF RunAgent, RecordRun, Cancel, CallStep, CallExpires, shell, threads,
           Check, Insert, Write, Receive, Expire, Forget
  <1>2. QED
    BY <1>1, AgentsUntouched

\* ... nor does a run ...
LEMMA RunAgents ==
  ASSUME ShellInv, NEW p \in Children,
         AgentRun(p) \/ AgentCancel(p) \/ AgentFinish(p) \/ AgentDie(p)
  PROVE  AgentsStarted' /\ NoOrphanAgent'
  <1>1. UNCHANGED <<reader, closer, current, fresh>>
    BY DEF AgentRun, AgentCancel, AgentFinish, AgentDie, shell, threads, Answer, Emit, Die
  <1>2. QED
    BY <1>1, AgentsUntouched

\* ... nor does the reader thread of an agent ...
LEMMA ReaderAgents ==
  ASSUME ShellInv, NEW p \in Children, ReaderStep(p)
  PROVE  AgentsStarted' /\ NoOrphanAgent'
  <1>1. UNCHANGED <<closer, current, fresh>>
    BY DEF ReaderStep, SinkFrame, AgentExit, shell, threads, Route, SeeEOF, FailPending, Exited
  <1>2. /\ reader[p] # "unborn"
        /\ \/ UNCHANGED reader
           \/ \E r \in ReaderStates \ {"unborn"} : reader' = [reader EXCEPT ![p] = r]
    BY DEF ReaderStep, SinkFrame, AgentExit, threads, Route, SeeEOF, FailPending, Exited,
           ReaderStates
  <1>3. reader \in [Children -> ReaderStates] /\ current \in Children /\ fresh \subseteq Children
    BY DEF ShellInv, TypeOK, ChildTypeOK
  <1>4. \A q \in Children : reader'[q] # "unborn" <=> reader[q] # "unborn"
    BY <1>2, <1>3
  <1>5. QED
    BY <1>1, <1>3, <1>4 DEF ShellInv, AgentsStarted, NoOrphanAgent

\* ... nor does its closing ...
LEMMA CloseAgents ==
  ASSUME ShellInv, NEW p \in Children, CloseStep(p)
  PROVE  AgentsStarted' /\ NoOrphanAgent'
  <1>1. UNCHANGED <<reader, current, fresh>>
    BY DEF CloseStep, Close, DropStdin, Reap, MarkDead, CloseDrain
  <1>2. \E c \in CloserStates \ {"no"} : closer' = [closer EXCEPT ![p] = c]
    BY DEF CloseStep, Close, DropStdin, Reap, MarkDead, CloseDrain, CloserStates
  <1>3. closer \in [Children -> CloserStates]
    BY DEF ShellInv, TypeOK, ChildTypeOK
  <1>4. \A q \in Children : closer[q] # "no" => closer'[q] # "no"
    BY <1>2, <1>3
  <1>5. QED
    BY <1>1, <1>4 DEF ShellInv, AgentsStarted, NoOrphanAgent

\* ... and a restart closes the agent it replaces.
LEMMA RestartAgents ==
  ASSUME ShellInv, NEW p \in Children, StartAgent(p) \/ ReplaceAgent(p)
  PROVE  AgentsStarted' /\ NoOrphanAgent'
  <1>1. /\ reader \in [Children -> ReaderStates] /\ closer \in [Children -> CloserStates]
        /\ current \in Children /\ fresh \subseteq Children
    BY DEF ShellInv, TypeOK, ChildTypeOK
  <1>2. CASE StartAgent(p)
    <2>1. reader' = [reader EXCEPT ![p] = "reading"] /\ fresh' = fresh \cup {p}
          /\ UNCHANGED <<closer, current>>
      BY <1>2 DEF StartAgent, Spawn
    <2>2. \A q \in Children : reader'[q] = IF q = p THEN "reading" ELSE reader[q]
      BY <1>1, <2>1
    <2>3. QED
      BY <1>1, <2>1, <2>2 DEF ShellInv, AgentsStarted, NoOrphanAgent
  <1>3. CASE ReplaceAgent(p)
    <2>1. closer' = [closer EXCEPT ![current] = "drop"] /\ current' = p /\ p \in fresh
          /\ fresh' = fresh \ {p} /\ UNCHANGED reader
      BY <1>3 DEF ReplaceAgent, BeginClose
    <2>2. \A q \in Children : closer'[q] = IF q = current THEN "drop" ELSE closer[q]
      BY <1>1, <2>1
    <2>3. QED
      BY <1>1, <2>1, <2>2 DEF ShellInv, AgentsStarted, NoOrphanAgent
  <1>4. QED
    BY <1>2, <1>3

-----------------------------------------------------------------------------
(* The theorems *)

\* The invariant holds when the shell starts ...
LEMMA ShellInitInv == Init => ShellInv
  <1> SUFFICES ASSUME Init PROVE ShellInv
    OBVIOUS
  <1>1. ChildInv
    BY InitInv DEF Init
  <1>2. ShellType
    BY ChildAssumption DEF Init, ShellType
  <1>3. reader = [p \in Children |-> IF p \in {1} THEN "reading" ELSE "unborn"]
    BY DEF Init, Started
  <1>4. AgentsStarted /\ NoOrphanAgent
    BY <1>3, ChildAssumption DEF Init, AgentsStarted, NoOrphanAgent
  <1>5. TypeOK
    BY <1>1, <1>2, TypeParts DEF ChildInv
  <1>6. QED
    BY <1>1, <1>4, <1>5 DEF ShellInv

\* ... and every step keeps it.
LEMMA ShellNextInv == ShellInv /\ [Next]_vars => ShellInv'
  <1> SUFFICES ASSUME ShellInv, [Next]_vars PROVE ShellInv'
    OBVIOUS
  <1>1. TypeOK'
    BY NextShellType
  <1>2. ChildInv'
    BY DrivesChildren, NextInv DEF ShellInv
  <1>3. ASSUME EngineExit \/ UNCHANGED vars PROVE AgentsStarted' /\ NoOrphanAgent'
    <2>1. UNCHANGED <<reader, closer, current, fresh>>
      BY <1>3 DEF EngineExit, vars, shell, childVars, threads
    <2>2. QED
      BY <2>1, AgentsUntouched
  <1>4. AgentsStarted' /\ NoOrphanAgent'
    BY <1>3, CallAgents, RunAgents, ReaderAgents, CloseAgents, RestartAgents DEF Next
  <1>5. QED
    BY <1>1, <1>2, <1>4 DEF ShellInv

\* Every reachable state of the shell and its agents has the types of TypeOK.
THEOREM ShellTypeCorrect == Spec => []TypeOK
  <1>1. ShellInv => TypeOK
    BY DEF ShellInv
  <1>2. QED
    BY <1>1, ShellInitInv, ShellNextInv, PTL DEF Spec

\* M14 for any number of restarts: an agent that was started is the current one, is about
\* to be installed, or is being closed (replace_agent, commands.rs).
THEOREM NoAgentOrphaned == Spec => []NoOrphanAgent
  <1>1. ShellInv => NoOrphanAgent
    BY DEF ShellInv
  <1>2. QED
    BY <1>1, ShellInitInv, ShellNextInv, PTL DEF Spec

\* The calls of the shell keep what was proved of calls in general: no waiter is lost and
\* nothing is left pending, whatever the commands, restarts and callbacks do.
THEOREM NoLostWaiterInShell == Spec => []CallsRegistered
  <1>1. ShellInv => CallsRegistered
    BY DEF ShellInv, ChildInv, ReachableOrAnswered, WaitersReachable, InFlight, CallsRegistered
  <1>2. QED
    BY <1>1, ShellInitInv, ShellNextInv, PTL DEF Spec
=============================================================================

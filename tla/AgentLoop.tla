------------------------------ MODULE AgentLoop ------------------------------
(***************************************************************************)
(* One run of the agent: the loop of PacketSageAgent.run (agent.py) under  *)
(* the budget of AgentPolicy (policy.py), with the message table the       *)
(* OpenAI provider keeps for the protocol (provider.py).  What the model   *)
(* decides and what the tools return are the environment's choices; a stop *)
(* may be asked for by another thread at any moment (request_finalize).    *)
(*                                                                         *)
(* The preloaded facts leave every counter but `preloaded` alone and are   *)
(* left out; so is the cost, which no caller of note_llm_call passes.      *)
(***************************************************************************)
EXTENDS Integers, Sequences

CONSTANTS
  MaxSteps, MaxLlmCalls, MaxToolCalls, MaxSameToolCalls, MaxTokens,  \* AgentBudget
  MaxInvalid,   \* MAX_INVALID_ARG_ROUNDS
  Signatures,   \* what call_signature tells apart
  RoundTokens,  \* what one round may cost
  MaxBatch,     \* bound of the model: tool calls the model asks for in one round
  MaxDrafts     \* bound of the model: findings in one final answer

None == "none"

ASSUME BudgetAssumption ==
  /\ MaxSteps \in Nat \ {0} /\ MaxLlmCalls \in Nat \ {0} /\ MaxToolCalls \in Nat \ {0}
  /\ MaxSameToolCalls \in Nat \ {0} /\ MaxTokens \in Nat \ {0}
  /\ MaxInvalid \in Nat \ {0} /\ MaxBatch \in Nat \ {0}
  /\ MaxDrafts \in Nat \ {0}
  /\ RoundTokens \subseteq Nat
  /\ None \notin Signatures

VARIABLES
  phase,        \* where the loop is
  interrupted,  \* request_finalize was called
  steps, llm_calls, tool_calls, tokens, repeated, last_signature,   \* PolicyState
  policy_stop,  \* PolicyState.stop_reason
  retries, repair_rounds, invalid_args,   \* locals of run
  batch,        \* tool calls of this round still to make
  open,         \* calls in the message table without their result
  trace,        \* rows of result.trace
  said,         \* the run has a summary, or a text to make one of
  findings,     \* how many drafts are in result.findings
  malformed_output, status, stop_reason,   \* the rest of the result
  final, late   \* history: ended by a final; rounds begun after the interrupt

policy == <<steps, llm_calls, tool_calls, tokens, repeated, last_signature>>
locals == <<retries, repair_rounds, invalid_args, batch>>
result == <<trace, said, findings, malformed_output, status, stop_reason>>
vars   == <<phase, interrupted, policy, policy_stop, locals, open, result, final, late>>

Calls == [sig : Signatures, valid : BOOLEAN]

Phases  == {"loop", "deciding", "tools", "closing", "done", "crashed"}
Reasons == {None, "step_budget", "llm_call_budget", "token_budget", "tool_call_budget",
            "homogenisation", "interrupted", "invalid_arguments"}

-----------------------------------------------------------------------------
(* AgentPolicy *)

\* can_continue: the reason to stop, which it also records in policy_stop.
Limit(calls, spent) ==
  IF policy_stop # None THEN policy_stop
  ELSE CASE steps >= MaxSteps -> "step_budget"
         [] steps < MaxSteps /\ calls >= MaxLlmCalls -> "llm_call_budget"
         [] steps < MaxSteps /\ calls < MaxLlmCalls /\ spent >= MaxTokens -> "token_budget"
         [] OTHER -> None

LimitNow == Limit(llm_calls, tokens)

\* The stop note_tool_call comes to, once the call is counted.
ToolStop(calls, same) ==
  CASE same >= MaxSameToolCalls -> "homogenisation"
    [] same < MaxSameToolCalls /\ calls >= MaxToolCalls -> "tool_call_budget"
    [] OTHER -> None

-----------------------------------------------------------------------------
(* The loop *)

\* An interrupted run stops at the head of the loop, once it has called a tool.
StopsHere == interrupted /\ trace > 0

Interrupt ==
  /\ phase = "loop" /\ LimitNow = None /\ StopsHere
  /\ phase' = "closing"
  /\ status' = "degraded" /\ stop_reason' = "interrupted"
  /\ UNCHANGED <<interrupted, policy, policy_stop, locals, open, trace, said, findings,
                 malformed_output, final, late>>

Exhausted ==
  /\ phase = "loop" /\ LimitNow # None
  /\ phase' = "closing"
  /\ policy_stop' = LimitNow /\ stop_reason' = LimitNow
  /\ UNCHANGED <<interrupted, policy, locals, open, trace, said, findings,
                 malformed_output, status, final, late>>

AskModel ==
  /\ phase = "loop" /\ LimitNow = None /\ ~StopsHere
  /\ phase' = "deciding"
  /\ steps' = steps + 1
  /\ late' = IF interrupted THEN late + 1 ELSE late
  /\ UNCHANGED <<interrupted, llm_calls, tool_calls, tokens, repeated, last_signature,
                 policy_stop, locals, open, result, final>>

\* The model's decision arrives: note_llm_call.
Decided(spent) ==
  /\ phase = "deciding"
  /\ llm_calls' = llm_calls + 1 /\ tokens' = tokens + spent
  /\ UNCHANGED <<interrupted, steps, tool_calls, repeated, last_signature,
                 invalid_args, trace, late>>

\* Regression: one malformed round too many.
MalformedTwice(spent, asked) ==
  /\ Decided(spent)
  /\ retries' = retries + 1
  /\ open' = open + asked
  /\ IF retries > 1
     THEN phase' = "closing" /\ status' = "degraded" /\ malformed_output' = TRUE
          /\ stop_reason' = policy_stop
     ELSE phase' = "loop" /\ UNCHANGED <<status, malformed_output, stop_reason>>
  /\ UNCHANGED <<policy_stop, repair_rounds, batch, said, findings, final>>

\* An empty answer, or tool calls whose arguments are no JSON.  Those calls stay in
\* the table.
Malformed(spent, asked) ==
  /\ Decided(spent)
  /\ retries' = retries + 1
  /\ open' = open + asked
  /\ IF retries > 0
     THEN phase' = "closing" /\ status' = "degraded" /\ malformed_output' = TRUE
          /\ stop_reason' = policy_stop
     ELSE phase' = "loop" /\ UNCHANGED <<status, malformed_output, stop_reason>>
  /\ UNCHANGED <<policy_stop, repair_rounds, batch, said, findings, final>>

\* A final answer with an unreadable finding is asked for once more ...
FinalRetried(spent, text) ==
  /\ Decided(spent)
  /\ retries = 0 /\ retries' = 1
  /\ phase' = "loop"
  /\ said' = (said \/ text)
  /\ UNCHANGED <<policy_stop, repair_rounds, batch, open, findings, malformed_output,
                 status, stop_reason, final>>

\* What else a final answer does: it has `drafts` readable findings, and unreadable
\* ones if `bad`.
Answered(spent, drafts, bad, text) ==
  /\ Decided(spent)
  /\ ~(bad /\ retries = 0)
  /\ said' = (said \/ text)
  /\ findings' = drafts
  /\ malformed_output' = (malformed_output \/ bad)
  /\ status' = IF bad THEN "degraded" ELSE status
  /\ UNCHANGED <<retries, batch, open>>

\* ... findings the engine rejects go back to the model once, budget permitting ...
FinalRejected(spent, drafts, bad, text) ==
  /\ Answered(spent, drafts, bad, text)
  /\ drafts > 0
  /\ repair_rounds = 0 /\ repair_rounds' = 1
  /\ Limit(llm_calls + 1, tokens + spent) = None
  /\ phase' = "loop"
  /\ UNCHANGED <<policy_stop, stop_reason, final>>

\* ... and any other final answer ends the loop.  Looking at the budget for a repair
\* leaves its reason behind.
FinalAccepted(spent, drafts, bad, text) ==
  /\ Answered(spent, drafts, bad, text)
  /\ policy_stop' = IF drafts > 0 /\ repair_rounds = 0
                    THEN Limit(llm_calls + 1, tokens + spent) ELSE policy_stop
  /\ stop_reason' = policy_stop'
  /\ phase' = "closing" /\ final' = TRUE
  /\ UNCHANGED repair_rounds

\* Regression: a model that gives up leaves the run's status alone.
GiveUpQuietly(spent) ==
  /\ Decided(spent)
  /\ phase' = "closing" /\ stop_reason' = policy_stop
  /\ UNCHANGED <<policy_stop, retries, repair_rounds, batch, open, said, findings,
                 malformed_output, status, final>>

GiveUp(spent) ==
  /\ Decided(spent)
  /\ phase' = "closing" /\ status' = "degraded" /\ stop_reason' = policy_stop
  /\ UNCHANGED <<policy_stop, retries, repair_rounds, batch, open, said, findings,
                 malformed_output, final>>

CallTools(spent, calls) ==
  /\ Decided(spent)
  /\ phase' = "tools" /\ batch' = calls
  /\ open' = open + Len(calls)
  /\ UNCHANGED <<policy_stop, retries, repair_rounds, said, findings, malformed_output,
                 status, stop_reason, final>>

\* The provider or a tool raises: the run is lost (the caller reports it).
Crash ==
  /\ phase \in {"deciding", "tools"}
  /\ phase' = "crashed"
  /\ UNCHANGED <<interrupted, policy, policy_stop, locals, open, result, final, late>>

-----------------------------------------------------------------------------
(* _run_tool *)

\* The call, good or bad, has its row in the trace and its result in the table.
Recorded ==
  /\ phase = "tools" /\ batch # <<>>
  /\ trace' = trace + 1 /\ open' = open - 1
  /\ UNCHANGED <<interrupted, steps, llm_calls, tokens, retries, repair_rounds, said,
                 findings, malformed_output, final, late>>

\* The last bad call allowed stops the run before it is counted.
TooManyInvalid ==
  /\ Recorded
  /\ ~Head(batch).valid /\ invalid_args + 1 >= MaxInvalid
  /\ invalid_args' = invalid_args + 1
  /\ status' = "degraded" /\ stop_reason' = "invalid_arguments"
  /\ phase' = "closing" /\ batch' = <<>>
  /\ UNCHANGED <<tool_calls, repeated, last_signature, policy_stop>>

\* Regression: a stop in the middle of a batch does not stop the batch.
RunToolToTheEnd ==
  LET c    == Head(batch)
      bad  == IF c.valid THEN invalid_args ELSE invalid_args + 1
      same == IF c.sig = last_signature THEN repeated + 1 ELSE 1
  IN  /\ Recorded
      /\ c.valid \/ bad < MaxInvalid
      /\ invalid_args' = bad
      /\ tool_calls' = tool_calls + 1
      /\ repeated' = same /\ last_signature' = c.sig
      /\ policy_stop' = ToolStop(tool_calls + 1, same)
      /\ batch' = Tail(batch)
      /\ phase' = IF Tail(batch) = <<>> THEN "loop" ELSE "tools"
      /\ UNCHANGED <<status, stop_reason>>

\* Every other call is counted (note_tool_call), which may end the run mid-batch.
RunTool ==
  LET c    == Head(batch)
      bad  == IF c.valid THEN invalid_args ELSE invalid_args + 1
      same == IF c.sig = last_signature THEN repeated + 1 ELSE 1
      stop == ToolStop(tool_calls + 1, same)
  IN  /\ Recorded
      /\ c.valid \/ bad < MaxInvalid
      /\ invalid_args' = bad
      /\ tool_calls' = tool_calls + 1
      /\ repeated' = same /\ last_signature' = c.sig
      /\ policy_stop' = stop
      /\ stop_reason' = stop
      /\ batch' = IF stop = None THEN Tail(batch) ELSE <<>>
      /\ phase' = CASE stop # None -> "closing"
                    [] stop = None /\ Tail(batch) = <<>> -> "loop"
                    [] OTHER -> "tools"
      /\ UNCHANGED status

-----------------------------------------------------------------------------
\* After the loop: the fallback answer, the verdict `failed`, and _submit.  Of the
\* drafts `passed` still pass the validator and are submitted, which may fail; drafts of
\* which none passes stay in the result.
Close(text, passed) ==
  /\ phase = "closing" /\ phase' = "done"
  /\ passed <= findings
  /\ said' = (said \/ text)
  /\ findings' = IF passed = 0 THEN findings ELSE passed
  /\ status' = IF trace = 0 /\ ~said' /\ findings = 0 THEN "failed"
               ELSE IF status = "ok" /\ malformed_output THEN "degraded" ELSE status
  /\ UNCHANGED <<interrupted, policy, policy_stop, locals, open, trace,
                 malformed_output, stop_reason, final, late>>

\* cancel, shutdown or Ctrl-C, from another thread.
RequestFinalize ==
  /\ phase \notin {"done", "crashed"} /\ ~interrupted
  /\ interrupted' = TRUE
  /\ UNCHANGED <<phase, policy, policy_stop, locals, open, result, final, late>>

Init ==
  /\ phase = "loop" /\ interrupted = FALSE
  /\ steps = 0 /\ llm_calls = 0 /\ tool_calls = 0 /\ tokens = 0
  /\ repeated = 0 /\ last_signature = None /\ policy_stop = None
  /\ retries = 0 /\ repair_rounds = 0 /\ invalid_args = 0 /\ batch = <<>> /\ open = 0
  /\ trace = 0 /\ said = FALSE /\ findings = 0 /\ malformed_output = FALSE
  /\ status = "ok" /\ stop_reason = None
  /\ final = FALSE /\ late = 0

Batches == UNION {[1 .. n -> Calls] : n \in 1 .. MaxBatch}

Decide(spent) ==
  \/ \E asked \in 0 .. MaxBatch : Malformed(spent, asked)
  \/ \E calls \in Batches : CallTools(spent, calls)
  \/ GiveUp(spent)
  \/ \E text \in BOOLEAN :
       \/ FinalRetried(spent, text)
       \/ \E bad \in BOOLEAN, drafts \in 0 .. MaxDrafts :
            \/ FinalRejected(spent, drafts, bad, text)
            \/ FinalAccepted(spent, drafts, bad, text)

Next ==
  \/ Interrupt \/ Exhausted \/ AskModel \/ Crash \/ TooManyInvalid \/ RunTool
  \/ RequestFinalize
  \/ \E spent \in RoundTokens : Decide(spent)
  \/ \E text \in BOOLEAN, passed \in 0 .. MaxDrafts : Close(text, passed)

Spec == Init /\ [][Next]_vars

-----------------------------------------------------------------------------
(* Properties *)

TypeOK ==
  /\ phase \in Phases /\ interrupted \in BOOLEAN
  /\ steps \in Nat /\ llm_calls \in Nat /\ tool_calls \in Nat /\ tokens \in Nat
  /\ repeated \in Nat /\ last_signature \in Signatures \cup {None}
  /\ policy_stop \in Reasons /\ stop_reason \in Reasons
  /\ retries \in 0 .. 2 /\ repair_rounds \in 0 .. 1 /\ invalid_args \in 0 .. MaxInvalid
  /\ batch \in Seq(Calls) /\ open \in Nat /\ trace \in Nat
  /\ said \in BOOLEAN /\ findings \in 0 .. MaxDrafts /\ malformed_output \in BOOLEAN
  /\ status \in {"ok", "degraded", "failed"}
  /\ final \in BOOLEAN /\ late \in Nat

\* "Everything in this module is a hard limit" (policy.py): however rounds, batches,
\* retries and the repair round combine, no counter passes its limit; tokens, known
\* only afterwards, pass it by less than one round.
WithinBudget ==
  /\ steps <= MaxSteps /\ llm_calls <= MaxLlmCalls /\ tool_calls <= MaxToolCalls
  /\ repeated <= MaxSameToolCalls
  /\ tokens > 0 => \E spent \in RoundTokens : tokens - spent < MaxTokens

\* agent.py:117: request_finalize "Asks the loop to stop at the next boundary".  No
\* round is begun after the stop was asked for.  The head of the loop looks at it only
\* once the run has called a tool.
StopsAtBoundary == late = 0

\* How far a cancelled run can go on all the same: at most three rounds (the retry,
\* the repair and one more), however the model answers.
LateRounds == late <= 3

\* No run stops without a reason to show: it was ended by a final answer, or it is
\* not "ok", or it names the limit it ran into.
EndExplained ==
  phase = "done" /\ ~final => stop_reason # None \/ status # "ok"

\* provider.py:662: the protocol wants "the assistant's messages as they are and the
\* role=tool results accumulated in order": when the model is asked, every tool call
\* in the table has its result.  A malformed round leaves calls without one.
ToolCallsAnswered == phase = "deciding" => open = 0
=============================================================================

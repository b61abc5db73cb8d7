--------------------------- MODULE AgentLoop_proofs ---------------------------
(* Theorems about the agent's loop, for every budget and whatever the model and *)
(* the tools answer.                                                            *)
EXTENDS AgentLoop, TLAPS

Going == {"loop", "deciding", "tools"}

\* While the run goes on every limit still has room; the tokens are known too late.
RoomLeft ==
  /\ phase \in Going => tool_calls < MaxToolCalls /\ repeated < MaxSameToolCalls
  /\ phase = "deciding" => llm_calls < MaxLlmCalls /\ tokens < MaxTokens

\* A run with its last bad call allowed is over.
InvalidInv == phase \in Going => invalid_args < MaxInvalid

\* What a round may still add after a cancel is paid for by the retry or the repair.
LateInv ==
  /\ phase \in Going => retries <= 1
  /\ late > 0 => interrupted
  /\ phase = "loop" /\ trace = 0 => late <= retries + repair_rounds
  /\ phase = "deciding" => late <= retries + repair_rounds + 1
  /\ phase = "deciding" /\ late > 0 => trace = 0
  /\ late <= 3

\* A run that is over, or about to be, has its explanation.
Explained ==
  phase \in {"closing", "done"} /\ ~final => stop_reason # None \/ status # "ok"

\* The calls still to make are open in the message table.
OpenInv == Len(batch) <= open

IInv ==
  /\ TypeOK /\ OpenInv /\ InvalidInv
  /\ WithinBudget /\ RoomLeft /\ LateInv /\ Explained

-----------------------------------------------------------------------------
(* The limits *)

\* If no limit stops the run, each has room for another round.
LEMMA LimitNone ==
  ASSUME TypeOK, NEW calls \in Nat, NEW spent \in Nat, Limit(calls, spent) = None
  PROVE  policy_stop = None /\ steps < MaxSteps /\ calls < MaxLlmCalls /\ spent < MaxTokens
  <1>1. policy_stop = None
    <2>1. CASE policy_stop # None
      BY <2>1 DEF Limit
    <2>2. QED
      BY <2>1
  <1>2. steps < MaxSteps /\ calls < MaxLlmCalls /\ spent < MaxTokens
    <2>1. steps \in Nat /\ MaxSteps \in Nat /\ MaxLlmCalls \in Nat /\ MaxTokens \in Nat
      BY BudgetAssumption DEF TypeOK
    <2>2. CASE steps >= MaxSteps
      BY <1>1, <2>1, <2>2 DEF Limit, None
    <2>3. CASE steps < MaxSteps /\ calls >= MaxLlmCalls
      BY <1>1, <2>1, <2>3 DEF Limit, None
    <2>4. CASE steps < MaxSteps /\ calls < MaxLlmCalls /\ spent >= MaxTokens
      BY <1>1, <2>1, <2>4 DEF Limit, None
    <2>5. QED
      BY <2>1, <2>2, <2>3, <2>4
  <1>3. QED
    BY <1>1, <1>2

\* A limit stops the run for one of the known reasons.
LEMMA LimitReason ==
  ASSUME TypeOK, NEW calls \in Nat, NEW spent \in Nat
  PROVE  Limit(calls, spent) \in Reasons
  BY BudgetAssumption DEF TypeOK, Limit, Reasons, None

\* The same of the limits on tool calls.
LEMMA ToolStopNone ==
  ASSUME NEW calls \in Nat, NEW same \in Nat
  PROVE  /\ ToolStop(calls, same) \in Reasons
         /\ ToolStop(calls, same) = None => same < MaxSameToolCalls /\ calls < MaxToolCalls
  BY BudgetAssumption DEF ToolStop, Reasons, None

\* A run that has not begun satisfies the invariant.
LEMMA InitInv == Init => IInv
  <1> SUFFICES ASSUME Init PROVE IInv
    OBVIOUS
  <1>1. TypeOK
    <2>1. batch \in Seq(Calls)
      BY DEF Init
    <2>2. policy_stop \in Reasons /\ stop_reason \in Reasons /\ phase \in Phases
      BY DEF Init, Reasons, Phases
    <2>3. retries \in 0 .. 2 /\ repair_rounds \in 0 .. 1 /\ invalid_args \in 0 .. MaxInvalid
      BY BudgetAssumption DEF Init
    <2>4. findings \in 0 .. MaxDrafts
      BY BudgetAssumption DEF Init
    <2>5. QED
      BY <2>1, <2>2, <2>3, <2>4 DEF Init, TypeOK
  <1>2. WithinBudget /\ RoomLeft
    BY BudgetAssumption DEF Init, WithinBudget, RoomLeft
  <1>3. LateInv /\ OpenInv /\ InvalidInv
    BY BudgetAssumption DEF Init, LateInv, OpenInv, InvalidInv
  <1>4. Explained
    BY DEF Init, Explained
  <1>5. QED
    BY <1>1, <1>2, <1>3, <1>4 DEF IInv
-----------------------------------------------------------------------------
(* Type correctness *)

\* What the decision of a round leaves behind, whatever it is.
LEMMA DecidedType ==
  ASSUME TypeOK, NEW spent \in RoundTokens, Decided(spent)
  PROVE  /\ llm_calls' \in Nat /\ tokens' \in Nat
         /\ llm_calls + 1 \in Nat /\ tokens + spent \in Nat
         /\ interrupted' \in BOOLEAN /\ steps' \in Nat /\ tool_calls' \in Nat
         /\ repeated' \in Nat /\ last_signature' \in Signatures \cup {None}
         /\ invalid_args' \in 0 .. MaxInvalid
         /\ trace' \in Nat /\ late' \in Nat
  BY BudgetAssumption DEF TypeOK, Decided

\* A decision of the model keeps the types; the retries are at most one before it.
LEMMA DecideType ==
  ASSUME TypeOK, NEW spent \in RoundTokens, Decide(spent), phase \in Going => retries <= 1
  PROVE  TypeOK'
  <1> USE DEF TypeOK, Phases
  <1>1. ASSUME NEW asked \in 0 .. MaxBatch, Malformed(spent, asked) PROVE TypeOK'
    <2>1. Decided(spent) /\ phase = "deciding"
      BY <1>1 DEF Malformed, Decided
    <2>2. retries <= 1 /\ retries' = retries + 1 /\ open' = open + asked
      BY <1>1, <2>1 DEF Malformed, Going
    <2>3. open' \in Nat /\ retries' \in 0 .. 2
      BY <2>2, BudgetAssumption
    <2>4. /\ phase' \in Phases /\ status' \in {"ok", "degraded", "failed"}
          /\ malformed_output' \in BOOLEAN /\ stop_reason' \in Reasons
      BY <1>1 DEF Malformed
    <2>5. UNCHANGED <<policy_stop, repair_rounds, batch, said, findings, final>>
      BY <1>1 DEF Malformed
    <2>6. QED
      BY <2>1, <2>3, <2>4, <2>5, DecidedType
  <1>2. ASSUME NEW calls \in Batches, CallTools(spent, calls) PROVE TypeOK'
    <2>1. calls \in Seq(Calls) /\ Len(calls) \in Nat
      BY DEF Batches
    <2>2. /\ Decided(spent) /\ phase' = "tools" /\ batch' = calls /\ open' = open + Len(calls)
          /\ UNCHANGED <<policy_stop, retries, repair_rounds, said, findings,
                         malformed_output, status, stop_reason, final>>
      BY <1>2 DEF CallTools
    <2>3. open' \in Nat /\ batch' \in Seq(Calls)
      BY <2>1, <2>2
    <2>4. QED
      BY <2>2, <2>3, DecidedType
  <1>3. CASE GiveUp(spent)
    BY <1>3, DecidedType DEF GiveUp
  <1>4. ASSUME NEW text \in BOOLEAN, FinalRetried(spent, text) PROVE TypeOK'
    BY <1>4, DecidedType DEF FinalRetried
  <1>5. ASSUME NEW text \in BOOLEAN, NEW bad \in BOOLEAN, NEW drafts \in 0 .. MaxDrafts,
               FinalRejected(spent, drafts, bad, text)
        PROVE  TypeOK'
    BY <1>5, DecidedType DEF FinalRejected, Answered
  <1>6. ASSUME NEW text \in BOOLEAN, NEW bad \in BOOLEAN, NEW drafts \in 0 .. MaxDrafts,
               FinalAccepted(spent, drafts, bad, text)
        PROVE  TypeOK'
    <2>1. Answered(spent, drafts, bad, text) /\ Decided(spent)
      BY <1>6 DEF FinalAccepted, Answered
    <2>2. policy_stop' \in Reasons
      BY <1>6, <2>1, DecidedType, LimitReason DEF FinalAccepted
    <2>3. QED
      BY <1>6, <2>1, <2>2, DecidedType DEF FinalAccepted, Answered
  <1>7. QED
    BY <1>1, <1>2, <1>3, <1>4, <1>5, <1>6 DEF Decide

\* So do the other steps of the loop.
LEMMA LoopType ==
  ASSUME TypeOK,
         Interrupt \/ Exhausted \/ AskModel \/ Crash \/ RequestFinalize \/ UNCHANGED vars
  PROVE  TypeOK'
  <1> USE DEF TypeOK, Phases, policy, locals, result
  <1>1. CASE Interrupt
    BY <1>1 DEF Interrupt, Reasons
  <1>2. CASE Exhausted
    <2>1. LimitNow \in Reasons
      BY LimitReason DEF LimitNow
    <2>2. QED
      BY <1>2, <2>1 DEF Exhausted
  <1>3. CASE AskModel
    BY <1>3 DEF AskModel
  <1>4. CASE Crash
    BY <1>4 DEF Crash
  <1>5. CASE RequestFinalize
    BY <1>5 DEF RequestFinalize
  <1>6. CASE UNCHANGED vars
    BY <1>6 DEF vars
  <1>7. QED
    BY <1>1, <1>2, <1>3, <1>4, <1>5, <1>6

\* The batch of a tool call and what is left of it.
LEMMA BatchType ==
  ASSUME TypeOK, OpenInv, Recorded
  PROVE  /\ Head(batch) \in Calls /\ Head(batch).sig \in Signatures
         /\ Head(batch).valid \in BOOLEAN
         /\ Tail(batch) \in Seq(Calls) /\ Len(Tail(batch)) = Len(batch) - 1
         /\ open' = open - 1 /\ open' \in Nat /\ Len(Tail(batch)) <= open'
         /\ <<>> \in Seq(Calls) /\ Len(<<>>) <= open'
  <1>1. batch \in Seq(Calls) /\ batch # <<>> /\ open \in Nat /\ Len(batch) <= open
    BY DEF TypeOK, OpenInv, Recorded
  <1>2. Head(batch) \in Calls /\ Tail(batch) \in Seq(Calls)
        /\ Len(batch) \in Nat \ {0} /\ Len(Tail(batch)) = Len(batch) - 1
    BY <1>1
  <1>3. open' = open - 1
    BY DEF Recorded
  <1>4. open' \in Nat /\ Len(Tail(batch)) <= open'
    BY <1>1, <1>2, <1>3
  <1>5. QED
    BY <1>2, <1>3, <1>4 DEF Calls

\* A tool call keeps the types and what the counters of calls rest on.
LEMMA ToolType ==
  ASSUME TypeOK, OpenInv, InvalidInv, TooManyInvalid \/ RunTool
  PROVE  TypeOK' /\ OpenInv' /\ InvalidInv'
  <1>1. Recorded
    BY DEF TooManyInvalid, RunTool
  <1>2. /\ trace' \in Nat /\ open' \in Nat
        /\ UNCHANGED <<interrupted, steps, llm_calls, tokens, retries, repair_rounds, said,
                       findings, malformed_output, final, late>>
    BY <1>1, BatchType DEF Recorded, TypeOK
  <1>3. CASE TooManyInvalid
    <2>1. invalid_args' \in 0 .. MaxInvalid
      <3>1. invalid_args \in Nat /\ invalid_args < MaxInvalid /\ MaxInvalid \in Nat
        BY <1>1, BudgetAssumption DEF Recorded, InvalidInv, Going, TypeOK
      <3>2. invalid_args' = invalid_args + 1
        BY <1>3 DEF TooManyInvalid
      <3>3. QED
        BY <3>1, <3>2
    <2>2. batch' = <<>> /\ batch' \in Seq(Calls) /\ Len(batch') <= open'
      BY <1>1, <1>3, BatchType DEF TooManyInvalid
    <2>3. QED
      BY <1>2, <1>3, <2>1, <2>2
         DEF TooManyInvalid, TypeOK, OpenInv, InvalidInv, Going, Phases, Reasons
  <1>4. CASE RunTool
    <2>1. invalid_args' \in 0 .. MaxInvalid /\ invalid_args' < MaxInvalid
      <3>1. invalid_args \in Nat /\ invalid_args < MaxInvalid /\ MaxInvalid \in Nat
        BY <1>1, BudgetAssumption DEF Recorded, InvalidInv, Going, TypeOK
      <3>2. CASE Head(batch).valid
        BY <1>4, <3>1, <3>2 DEF RunTool
      <3>3. CASE ~Head(batch).valid
        <4>1. invalid_args' = invalid_args + 1 /\ invalid_args + 1 < MaxInvalid
          BY <1>4, <3>3 DEF RunTool
        <4>2. QED
          BY <3>1, <4>1
      <3>4. QED
        BY <3>2, <3>3
    <2>2. PICK same \in Nat : /\ repeated' = same
                              /\ policy_stop' = ToolStop(tool_calls + 1, same)
      <3>1. repeated + 1 \in Nat /\ 1 \in Nat
        BY DEF TypeOK
      <3>2. QED
        BY <1>4, <3>1 DEF RunTool
    <2>3. last_signature' \in Signatures \cup {None}
      <3>1. last_signature' = Head(batch).sig
        BY <1>4 DEF RunTool
      <3>2. QED
        BY <1>1, <3>1, BatchType
    <2>4. tool_calls' \in Nat /\ repeated' \in Nat /\ tool_calls + 1 \in Nat
          /\ stop_reason' = policy_stop'
      <3>1. tool_calls \in Nat
        BY DEF TypeOK
      <3>2. tool_calls' = tool_calls + 1 /\ stop_reason' = policy_stop'
        BY <1>4 DEF RunTool
      <3>3. repeated' \in Nat
        BY <2>2
      <3>4. QED
        BY <3>1, <3>2, <3>3
    <2>5. policy_stop' \in Reasons /\ stop_reason' \in Reasons
      BY <2>2, <2>4, ToolStopNone
    <2>6. batch' \in {<<>>, Tail(batch)}
      BY <1>4 DEF RunTool
    <2>7. batch' \in Seq(Calls) /\ Len(batch') <= open'
      BY <1>1, <2>6, BatchType
    <2>8. phase' \in Phases /\ status' \in {"ok", "degraded", "failed"}
      BY <1>4 DEF RunTool, TypeOK, Phases
    <2>9. QED
      BY <1>2, <2>1, <2>3, <2>4, <2>5, <2>7, <2>8 DEF TypeOK, OpenInv, InvalidInv
  <1>5. QED
    BY <1>3, <1>4

\* The end of a run keeps the types.
LEMMA CloseType ==
  ASSUME TypeOK, NEW text \in BOOLEAN, NEW passed \in 0 .. MaxDrafts,
         Close(text, passed)
  PROVE  TypeOK'
  <1>1. status' \in {"ok", "degraded", "failed"}
    BY DEF Close, TypeOK
  <1>2. said' \in BOOLEAN /\ findings' \in 0 .. MaxDrafts
    BY DEF Close, TypeOK
  <1>3. QED
    BY <1>1, <1>2 DEF Close, TypeOK, Phases, policy, locals

\* The calls left in a batch are among those not yet answered.
LEMMA OpenKept ==
  ASSUME TypeOK, OpenInv, InvalidInv, [Next]_vars
  PROVE  OpenInv'
  <1>1. Len(batch) \in Nat /\ open \in Nat /\ Len(batch) <= open
    BY DEF TypeOK, OpenInv
  <1>2. ASSUME NEW spent \in RoundTokens, Decide(spent) PROVE OpenInv'
    <2>1. ASSUME NEW asked \in 0 .. MaxBatch, Malformed(spent, asked) PROVE OpenInv'
      BY <1>1, <2>1, BudgetAssumption DEF Malformed, OpenInv
    <2>2. ASSUME NEW calls \in Batches, CallTools(spent, calls) PROVE OpenInv'
      <3>1. batch' = calls /\ open' = open + Len(calls)
        BY <2>2 DEF CallTools
      <3>2. Len(calls) \in Nat
        BY DEF Batches
      <3>3. QED
        BY <1>1, <3>1, <3>2 DEF OpenInv
    <2>3. ASSUME UNCHANGED <<batch, open>> PROVE OpenInv'
      BY <1>1, <2>3 DEF OpenInv
    <2>4. QED
      BY <1>2, <2>1, <2>2, <2>3
         DEF Decide, GiveUp, FinalRetried, FinalRejected, FinalAccepted, Answered
  <1>3. CASE TooManyInvalid \/ RunTool
    BY <1>3, ToolType
  <1>4. ASSUME \/ Interrupt \/ Exhausted \/ AskModel \/ Crash \/ RequestFinalize
               \/ UNCHANGED vars
               \/ \E text \in BOOLEAN, passed \in 0 .. MaxDrafts :
                    Close(text, passed)
        PROVE  OpenInv'
    <2>1. UNCHANGED <<batch, open>>
      BY <1>4 DEF Interrupt, Exhausted, AskModel, Crash, RequestFinalize, Close, vars, locals
    <2>2. QED
      BY <1>1, <2>1 DEF OpenInv
  <1>5. QED
    BY <1>2, <1>3, <1>4 DEF Next
-----------------------------------------------------------------------------
(* What the steps may change *)

\* The steps that are no decision of the model and no tool call.
Quiet ==
  \/ Interrupt \/ Exhausted \/ Crash \/ RequestFinalize \/ UNCHANGED vars
  \/ \E text \in BOOLEAN, passed \in 0 .. MaxDrafts : Close(text, passed)

\* Every step decides, runs a tool, asks the model, or is quiet.
LEMMA Steps ==
  ASSUME [Next]_vars
  PROVE  \/ AskModel \/ TooManyInvalid \/ RunTool \/ Quiet
         \/ \E spent \in RoundTokens : Decide(spent)
  BY DEF Next, Quiet

\* Nothing is counted by a quiet step, and none leads back into the loop.
LEMMA QuietStep ==
  ASSUME Quiet
  PROVE  /\ UNCHANGED <<policy, retries, repair_rounds, invalid_args, trace, late, final>>
         /\ phase' = phase \/ phase' \notin Going
  BY DEF Quiet, Interrupt, Exhausted, Crash, RequestFinalize, Close, vars, locals, result,
         Going

\* What all decisions have in common ...
LEMMA DecideStep ==
  ASSUME NEW spent, Decide(spent)
  PROVE  /\ phase = "deciding" /\ Decided(spent)
         /\ phase' \in {"loop", "tools", "closing"}
  BY DEF Decide, Malformed, CallTools, GiveUp, FinalRetried, FinalRejected, FinalAccepted,
         Answered, Decided

\* ... and what all tool calls have.
LEMMA ToolStep ==
  ASSUME TooManyInvalid \/ RunTool
  PROVE  /\ phase = "tools" /\ trace' = trace + 1
         /\ phase' \in {"loop", "tools", "closing"}
         /\ UNCHANGED <<interrupted, steps, llm_calls, tokens, retries, repair_rounds, said,
                        findings, malformed_output, final, late>>
  BY DEF TooManyInvalid, RunTool, Recorded

\* Every step keeps the types.
LEMMA TypeKept ==
  ASSUME TypeOK, OpenInv, InvalidInv, LateInv, [Next]_vars
  PROVE  TypeOK'
  <1>1. phase \in Going => retries <= 1
    BY DEF LateInv
  <1>2. ASSUME NEW spent \in RoundTokens, Decide(spent) PROVE TypeOK'
    BY <1>1, <1>2, DecideType
  <1>3. CASE TooManyInvalid \/ RunTool
    BY <1>3, ToolType
  <1>4. ASSUME NEW text \in BOOLEAN, NEW passed \in 0 .. MaxDrafts,
               Close(text, passed)
        PROVE  TypeOK'
    BY <1>4, CloseType
  <1>5. CASE Interrupt \/ Exhausted \/ AskModel \/ Crash \/ RequestFinalize \/ UNCHANGED vars
    BY <1>5, LoopType
  <1>6. QED
    BY <1>2, <1>3, <1>4, <1>5 DEF Next

\* Every step keeps what bounds the bad calls.
LEMMA InvalidKept ==
  ASSUME TypeOK, OpenInv, InvalidInv, [Next]_vars
  PROVE  InvalidInv'
  <1>1. CASE AskModel
    BY <1>1 DEF AskModel, InvalidInv, Going, locals
  <1>2. CASE TooManyInvalid \/ RunTool
    BY <1>2, ToolType
  <1>3. CASE Quiet
    BY <1>3, QuietStep DEF InvalidInv
  <1>4. ASSUME NEW spent \in RoundTokens, Decide(spent) PROVE InvalidInv'
    BY <1>4, DecideStep DEF InvalidInv, Decided, Going
  <1>5. QED
    BY <1>1, <1>2, <1>3, <1>4, Steps

-----------------------------------------------------------------------------
(* The budget *)

\* A call is made only with room for it, and leaves room if the run goes on.
LEMMA ToolRoom ==
  ASSUME TypeOK, RoomLeft, RunTool
  PROVE  /\ tool_calls' <= MaxToolCalls /\ repeated' <= MaxSameToolCalls
         /\ phase' \in Going => tool_calls' < MaxToolCalls /\ repeated' < MaxSameToolCalls
  <1>1. /\ tool_calls \in Nat /\ repeated \in Nat /\ MaxToolCalls \in Nat \ {0}
        /\ MaxSameToolCalls \in Nat \ {0}
        /\ tool_calls < MaxToolCalls /\ repeated < MaxSameToolCalls
    BY BudgetAssumption DEF TypeOK, RoomLeft, RunTool, Recorded, Going
  <1>2. PICK same \in {repeated + 1, 1} :
          /\ repeated' = same /\ tool_calls' = tool_calls + 1
          /\ phase' \in Going => ToolStop(tool_calls + 1, same) = None
    BY DEF RunTool, Going
  <1>3. same \in Nat /\ tool_calls + 1 \in Nat
        /\ same <= MaxSameToolCalls /\ tool_calls + 1 <= MaxToolCalls
    BY <1>1, <1>2
  <1>4. QED
    BY <1>2, <1>3, ToolStopNone

\* Every step stays within the budget and leaves room while the run goes on.
LEMMA BudgetInvKept ==
  ASSUME TypeOK, WithinBudget, RoomLeft, [Next]_vars
  PROVE  WithinBudget' /\ RoomLeft'
  <1>1. CASE AskModel
    <2>1. LimitNow = None
      BY <1>1 DEF AskModel
    <2>2. llm_calls \in Nat /\ tokens \in Nat
      BY DEF TypeOK
    <2>3. steps < MaxSteps /\ llm_calls < MaxLlmCalls /\ tokens < MaxTokens
      BY <2>1, <2>2, LimitNone DEF LimitNow
    <2>4. /\ phase = "loop" /\ phase' = "deciding" /\ steps' = steps + 1
          /\ UNCHANGED <<llm_calls, tool_calls, tokens, repeated>>
      BY <1>1 DEF AskModel
    <2>5. steps' <= MaxSteps
      BY <2>3, <2>4, BudgetAssumption DEF TypeOK
    <2>6. WithinBudget'
      BY <2>4, <2>5 DEF WithinBudget
    <2>7. RoomLeft'
      BY <2>3, <2>4 DEF RoomLeft, Going
    <2>8. QED
      BY <2>6, <2>7
  <1>2. ASSUME NEW spent \in RoundTokens, Decide(spent) PROVE WithinBudget' /\ RoomLeft'
    <2>1. /\ llm_calls < MaxLlmCalls /\ tokens < MaxTokens
          /\ tool_calls < MaxToolCalls /\ repeated < MaxSameToolCalls
      BY <1>2, DecideStep DEF RoomLeft, Going
    <2>2. /\ llm_calls' = llm_calls + 1 /\ tokens' = tokens + spent
          /\ UNCHANGED <<steps, tool_calls, repeated>>
          /\ phase' \in {"loop", "tools", "closing"}
      BY <1>2, DecideStep DEF Decided
    <2>3. /\ llm_calls \in Nat /\ tokens \in Nat /\ spent \in Nat
          /\ MaxLlmCalls \in Nat /\ MaxTokens \in Nat
      BY BudgetAssumption DEF TypeOK
    <2>4. llm_calls' <= MaxLlmCalls /\ tokens' - spent < MaxTokens
      BY <2>1, <2>2, <2>3
    <2>5. WithinBudget'
      BY <2>2, <2>4 DEF WithinBudget
    <2>6. RoomLeft'
      BY <2>1, <2>2 DEF RoomLeft
    <2>7. QED
      BY <2>5, <2>6
  <1>3. CASE TooManyInvalid
    BY <1>3, ToolStep DEF TooManyInvalid, WithinBudget, RoomLeft, Going
  <1>4. CASE RunTool
    BY <1>4, ToolStep, ToolRoom DEF WithinBudget, RoomLeft, Going
  <1>5. CASE Quiet
    <2>1. UNCHANGED <<steps, llm_calls, tool_calls, tokens, repeated>>
      BY <1>5, QuietStep DEF policy
    <2>2. phase' = phase \/ phase' \notin Going
      BY <1>5, QuietStep
    <2>3. QED
      BY <2>1, <2>2 DEF WithinBudget, RoomLeft, Going
  <1>6. QED
    BY <1>1, <1>2, <1>3, <1>4, <1>5, Steps

-----------------------------------------------------------------------------
(* The rounds after a cancel *)

\* A round that leads back to the loop without a tool call has used up the retry or
\* the repair.
LEMMA SpentOnce ==
  ASSUME NEW spent, Decide(spent), retries \in 0 .. 2, repair_rounds \in 0 .. 1, retries <= 1
  PROVE  /\ phase' \in Going => retries' <= 1
         /\ phase' = "loop" => retries' + repair_rounds' = retries + repair_rounds + 1
  <1>1. ASSUME NEW asked \in 0 .. MaxBatch, Malformed(spent, asked)
        PROVE  /\ phase' \in Going => retries' <= 1
               /\ phase' = "loop" => retries' + repair_rounds' = retries + repair_rounds + 1
    <2>1. retries' = retries + 1 /\ repair_rounds' = repair_rounds
      BY <1>1 DEF Malformed
    <2>2. CASE retries > 0
      BY <1>1, <2>2 DEF Malformed, Going
    <2>3. CASE retries = 0
      BY <2>1, <2>3
    <2>4. QED
      BY <2>2, <2>3
  <1>2. ASSUME NEW calls \in Batches, CallTools(spent, calls)
        PROVE  retries' = retries /\ phase' = "tools"
    BY <1>2 DEF CallTools
  <1>3. ASSUME GiveUp(spent) PROVE phase' = "closing"
    BY <1>3 DEF GiveUp
  <1>4. ASSUME NEW text \in BOOLEAN, FinalRetried(spent, text)
        PROVE  retries = 0 /\ retries' = 1 /\ repair_rounds' = repair_rounds
    BY <1>4 DEF FinalRetried
  <1>5. ASSUME NEW text \in BOOLEAN, NEW bad \in BOOLEAN, NEW drafts \in 0 .. MaxDrafts,
               FinalRejected(spent, drafts, bad, text)
        PROVE  retries' = retries /\ repair_rounds = 0 /\ repair_rounds' = 1
    BY <1>5 DEF FinalRejected, Answered
  <1>6. ASSUME NEW text \in BOOLEAN, NEW bad \in BOOLEAN, NEW drafts \in 0 .. MaxDrafts,
               FinalAccepted(spent, drafts, bad, text)
        PROVE  phase' = "closing"
    BY <1>6 DEF FinalAccepted
  <1>7. "closing" \notin Going /\ "tools" # "loop" /\ "closing" # "loop"
    BY DEF Going
  <1>8. CASE \E asked \in 0 .. MaxBatch : Malformed(spent, asked)
    BY <1>1, <1>8
  <1>9. CASE \E calls \in Batches : CallTools(spent, calls)
    BY <1>2, <1>7, <1>9
  <1>10. CASE GiveUp(spent)
    BY <1>3, <1>7, <1>10
  <1>11. CASE \E text \in BOOLEAN : FinalRetried(spent, text)
    BY <1>4, <1>11
  <1>12. CASE \E text, bad \in BOOLEAN, drafts \in 0 .. MaxDrafts :
                FinalRejected(spent, drafts, bad, text)
    BY <1>5, <1>12
  <1>13. CASE \E text, bad \in BOOLEAN, drafts \in 0 .. MaxDrafts :
                FinalAccepted(spent, drafts, bad, text)
    BY <1>6, <1>7, <1>13
  <1>14. QED
    BY <1>8, <1>9, <1>10, <1>11, <1>12, <1>13 DEF Decide

\* Every step keeps the account of the rounds begun after a cancel.
LEMMA LateKept ==
  ASSUME TypeOK, LateInv, [Next]_vars
  PROVE  LateInv'
  <1>1. /\ late \in Nat /\ trace \in Nat /\ retries \in 0 .. 2 /\ repair_rounds \in 0 .. 1
        /\ interrupted \in BOOLEAN
    BY DEF TypeOK
  <1>2. CASE AskModel
    <2>1. /\ phase = "loop" /\ phase' = "deciding"
          /\ UNCHANGED <<interrupted, retries, repair_rounds, trace>>
      BY <1>2 DEF AskModel, locals, result
    <2>2. retries <= 1
      BY <2>1 DEF LateInv, Going
    <2>3. CASE interrupted
      <3>1. trace = 0 /\ late' = late + 1
        BY <1>1, <1>2, <2>3 DEF AskModel, StopsHere
      <3>2. late <= retries + repair_rounds
        BY <2>1, <3>1 DEF LateInv
      <3>3. late' <= retries + repair_rounds + 1 /\ late' <= 3
        BY <1>1, <2>2, <3>1, <3>2
      <3>4. QED
        BY <2>1, <2>2, <2>3, <3>1, <3>3 DEF LateInv
    <2>4. CASE ~interrupted
      <3>1. late = 0 /\ late' = 0
        BY <1>1, <1>2, <2>4 DEF AskModel, LateInv
      <3>2. late' <= retries + repair_rounds + 1 /\ late' <= 3
        BY <1>1, <3>1
      <3>3. QED
        BY <2>1, <2>2, <3>1, <3>2 DEF LateInv
    <2>5. QED
      BY <2>3, <2>4
  <1>3. ASSUME NEW spent \in RoundTokens, Decide(spent) PROVE LateInv'
    <2>1. /\ phase = "deciding" /\ phase' \in {"loop", "tools", "closing"}
          /\ UNCHANGED <<interrupted, trace, late>>
      BY <1>3, DecideStep DEF Decided
    <2>2. /\ retries <= 1 /\ late <= retries + repair_rounds + 1 /\ late <= 3
          /\ late > 0 => interrupted
      BY <2>1 DEF LateInv, Going
    <2>3. /\ phase' \in Going => retries' <= 1
          /\ phase' = "loop" => retries' + repair_rounds' = retries + repair_rounds + 1
      BY <1>1, <1>3, <2>2, SpentOnce
    <2>4. QED
      BY <1>1, <2>1, <2>2, <2>3 DEF LateInv
  <1>4. CASE TooManyInvalid \/ RunTool
    <2>1. /\ phase = "tools" /\ trace' = trace + 1 /\ trace' > 0
          /\ phase' \in {"loop", "tools", "closing"}
          /\ UNCHANGED <<interrupted, retries, repair_rounds, late>>
      BY <1>1, <1>4, ToolStep
    <2>2. QED
      BY <2>1 DEF LateInv, Going
  <1>5. CASE Quiet
    <2>1. /\ UNCHANGED <<retries, repair_rounds, trace, late>>
          /\ phase' = phase \/ phase' \notin Going
      BY <1>5, QuietStep
    <2>2. interrupted => interrupted'
      BY <1>5 DEF Quiet, Interrupt, Exhausted, Crash, RequestFinalize, Close, vars
    <2>3. QED
      BY <2>1, <2>2 DEF LateInv, Going
  <1>6. QED
    BY <1>2, <1>3, <1>4, <1>5, Steps
-----------------------------------------------------------------------------
(* How a run ends *)

\* Every step into "closing" but the accepted final leaves its explanation.
LEMMA ExplainedKept ==
  ASSUME TypeOK, Explained, [Next]_vars
  PROVE  Explained'
  <1>1. CASE AskModel
    BY <1>1 DEF AskModel, Explained
  <1>2. CASE TooManyInvalid
    BY <1>2 DEF TooManyInvalid, Explained
  <1>3. CASE RunTool
    <2>1. phase' \in {"loop", "tools"} \/ stop_reason' # None
      BY <1>3 DEF RunTool
    <2>2. phase' \in {"loop", "tools", "closing"}
      BY <1>3, ToolStep
    <2>3. QED
      BY <2>1, <2>2 DEF Explained
  <1>4. ASSUME NEW spent \in RoundTokens, Decide(spent) PROVE Explained'
    <2>1. ASSUME NEW asked \in 0 .. MaxBatch, Malformed(spent, asked)
          PROVE  phase' = "loop" \/ status' = "degraded"
      BY <2>1 DEF Malformed
    <2>2. \/ phase' \in {"loop", "tools"} \/ status' = "degraded" \/ final'
      BY <1>4, <2>1
         DEF Decide, CallTools, GiveUp, FinalRetried, FinalRejected, FinalAccepted
    <2>3. phase' \in {"loop", "tools", "closing"}
      BY <1>4, DecideStep
    <2>4. QED
      BY <2>2, <2>3 DEF Explained
  <1>5. CASE Interrupt
    BY <1>5 DEF Interrupt, Explained
  <1>6. CASE Exhausted
    BY <1>6 DEF Exhausted, Explained
  <1>7. CASE Crash
    BY <1>7 DEF Crash, Explained
  <1>8. CASE RequestFinalize \/ UNCHANGED vars
    BY <1>8 DEF RequestFinalize, vars, result, Explained
  <1>9. ASSUME NEW text \in BOOLEAN, NEW passed \in 0 .. MaxDrafts,
               Close(text, passed)
        PROVE  Explained'
    <2>1. /\ phase = "closing" /\ UNCHANGED <<stop_reason, final>>
          /\ status' = status \/ status' \in {"failed", "degraded"}
      BY <1>9 DEF Close
    <2>2. QED
      BY <2>1 DEF Explained
  <1>10. QED
    BY <1>1, <1>2, <1>3, <1>4, <1>5, <1>6, <1>7, <1>8, <1>9 DEF Next

-----------------------------------------------------------------------------
\* Every step keeps the invariant.
LEMMA NextInv == IInv /\ [Next]_vars => IInv'
  <1> SUFFICES ASSUME IInv, [Next]_vars PROVE IInv'
    OBVIOUS
  <1>1. /\ TypeOK /\ OpenInv /\ InvalidInv
        /\ WithinBudget /\ RoomLeft /\ LateInv /\ Explained
    BY DEF IInv
  <1>2. TypeOK' /\ OpenInv' /\ InvalidInv'
    BY <1>1, TypeKept, OpenKept, InvalidKept
  <1>3. WithinBudget' /\ RoomLeft'
    BY <1>1, BudgetInvKept
  <1>4. LateInv'
    BY <1>1, LateKept
  <1>5. Explained'
    BY <1>1, ExplainedKept
  <1>6. QED
    BY <1>2, <1>3, <1>4, <1>5 DEF IInv

\* The strengthened invariant holds in every run.
THEOREM LoopInvariant == Spec => []IInv
  BY InitInv, NextInv, PTL DEF Spec

\* The agent's loop keeps to its types (PacketSageAgent.run).
THEOREM LoopTypeCorrect == Spec => []TypeOK
  <1>1. IInv => TypeOK
    BY DEF IInv
  <1>2. QED
    BY <1>1, LoopInvariant, PTL

\* "Everything in this module is a hard limit" (policy.py): true of every budget,
\* whatever the model asks for and the tools return.
THEOREM BudgetKept == Spec => []WithinBudget
  <1>1. IInv => WithinBudget
    BY DEF IInv
  <1>2. QED
    BY <1>1, LoopInvariant, PTL

\* A run that was asked to stop begins at most three more rounds, whatever its budget
\* (request_finalize and the head of the loop in agent.py): as far as the broken promise
\* of agent.py:117 can go.
THEOREM CancelledRunEnds == Spec => []LateRounds
  <1>1. IInv => LateRounds
    BY DEF IInv, LateInv, LateRounds
  <1>2. QED
    BY <1>1, LoopInvariant, PTL

\* A run that was not ended by a final answer says why it stopped (stop_reason and
\* status of the result).
THEOREM EndsExplained == Spec => []EndExplained
  <1>1. IInv => EndExplained
    BY DEF IInv, Explained, EndExplained
  <1>2. QED
    BY <1>1, LoopInvariant, PTL
=============================================================================

-------------------------- MODULE JsonlChild_proofs --------------------------
(* Theorems about the child processes of the shell, for any number of calls, *)
(* children and frames.                                                      *)
EXTENDS JsonlChild, TLAPS

(***************************************************************************)
(* The inductive invariant.  A call in flight is registered or has its     *)
(* answer; an answered one is registered nowhere and was made.             *)
(***************************************************************************)
InFlight == {"inserted", "waiting", "expired"}

ReachableOrAnswered ==
  \A c \in Calls : call[c] \in InFlight => c \in pending[to[c]] \/ got[c] # NoId

AnsweredOnlyOnce ==
  \A c \in Calls : got[c] # NoId =>
    call[c] \notin {"idle", "checked"} /\ \A p \in Children : c \notin pending[p]

ChildInv == ChildTypeOK /\ PendingInFlight /\ ReachableOrAnswered /\ AnsweredOnlyOnce

-----------------------------------------------------------------------------
(* Type correctness *)

\* The children start with the types they keep.
LEMMA InitType == ASSUME NEW up, Started(up) PROVE ChildTypeOK
  <1>1. <<>> \in Seq(Calls) /\ <<>> \in Seq(Frames)
    OBVIOUS
  <1>2. call \in [Calls -> CallStates] /\ to \in [Calls -> Children]
        /\ got \in [Calls -> {NoId, "exited"} \cup {f.event : f \in Frames}]
    BY ChildAssumption DEF Started, CallStates
  <1>3. pending \in [Children -> SUBSET Calls]
    BY DEF Started
  <1>4. alive \in [Children -> BOOLEAN] /\ stdin \in [Children -> BOOLEAN]
        /\ hears \in [Children -> BOOLEAN] /\ speaks \in [Children -> BOOLEAN]
    BY DEF Started
  <1>5. inbox \in [Children -> Seq(Calls)] /\ stdout \in [Children -> Seq(Frames)]
    BY <1>1 DEF Started
  <1>6. reader \in [Children -> ReaderStates] /\ closer \in [Children -> CloserStates]
    BY DEF Started, ReaderStates, CloserStates
  <1>7. QED
    BY <1>2, <1>3, <1>4, <1>5, <1>6 DEF ChildTypeOK

\* What the callers do keeps the types.
LEMMA CallType ==
  ASSUME ChildTypeOK, NEW c \in Calls,
         \/ \E p \in Children : Check(c, p)
         \/ Insert(c) \/ Write(c) \/ Receive(c) \/ Expire(c) \/ Forget(c)
  PROVE  ChildTypeOK'
  <1> USE DEF ChildTypeOK, callers, pipes, threads, Goto, CallStates
  <1>1. ASSUME NEW p \in Children, Check(c, p) PROVE ChildTypeOK'
    BY <1>1 DEF Check
  <1>2. CASE Insert(c)
    BY <1>2 DEF Insert
  <1>3. CASE Write(c)
    <2>1. to[c] \in Children /\ inbox[to[c]] \in Seq(Calls) /\ Append(inbox[to[c]], c) \in Seq(Calls)
      OBVIOUS
    <2>2. inbox' = [inbox EXCEPT ![to[c]] = Append(@, c)] \/ UNCHANGED inbox
      BY <1>3 DEF Write
    <2>a. inbox' \in [Children -> Seq(Calls)]
      BY <2>1, <2>2
    <2>b. \/ pending' = [pending EXCEPT ![to[c]] = @ \ {c}]
          \/ UNCHANGED pending
      BY <1>3 DEF Write
    <2>c. call' = [call EXCEPT ![c] = "waiting"] \/ call' = [call EXCEPT ![c] = "failed"]
      BY <1>3 DEF Write
    <2>d. pending[to[c]] \ {c} \in SUBSET Calls
      BY <2>1
    <2>e. pending' \in [Children -> SUBSET Calls]
      BY <2>1, <2>b, <2>d
    <2>3. pending' \in [Children -> SUBSET Calls] /\ call' \in [Calls -> CallStates]
      BY <2>c, <2>e
    <2>4. UNCHANGED <<to, got, alive, stdin, hears, speaks, stdout, reader, closer>>
      BY <1>3 DEF Write
    <2>5. QED
      BY <2>a, <2>3, <2>4
  <1>4. CASE Receive(c)
    BY <1>4 DEF Receive
  <1>5. CASE Expire(c)
    BY <1>5 DEF Expire
  <1>6. CASE Forget(c)
    BY <1>6 DEF Forget
  <1>7. QED
    BY <1>1, <1>2, <1>3, <1>4, <1>5, <1>6

\* What the reader thread does keeps the types.
LEMMA ReaderType ==
  ASSUME ChildTypeOK, NEW p \in Children, Reader(p)
  PROVE  ChildTypeOK'
  <1> USE DEF ChildTypeOK, callers, pipes, threads, ReaderStates
  <1>1. CASE Route(p)
    <2>1. stdout[p] \in Seq(Frames) /\ stdout[p] # <<>>
      BY <1>1 DEF Route
    <2>2. PICK f \in Frames : f = Head(stdout[p])
      BY <2>1
    <2>3. Tail(stdout[p]) \in Seq(Frames)
      BY <2>1
    <2>4. stdout' \in [Children -> Seq(Frames)]
      BY <1>1, <2>3 DEF Route
    <2>a. \/ UNCHANGED <<pending, got>>
          \/ /\ f.id \in pending[p]
             /\ pending' = [pending EXCEPT ![p] = @ \ {f.id}]
             /\ got' = [got EXCEPT ![f.id] = f.event]
      BY <1>1, <2>2 DEF Route
    <2>b. f.event \in {NoId, "exited"} \cup {g.event : g \in Frames}
      BY <2>2
    <2>c. pending[p] \ {f.id} \in SUBSET Calls
      OBVIOUS
    <2>5. pending' \in [Children -> SUBSET Calls]
      BY <2>a, <2>c
    <2>6. got' \in [Calls -> {NoId, "exited"} \cup {g.event : g \in Frames}]
      BY <2>a, <2>b
    <2>7. UNCHANGED <<call, to, alive, stdin, hears, speaks, inbox, reader, closer>>
      BY <1>1 DEF Route
    <2>8. QED
      BY <2>4, <2>5, <2>6, <2>7
  <1>2. CASE SeeEOF(p)
    BY <1>2 DEF SeeEOF
  <1>3. CASE FailPending(p)
    BY <1>3 DEF FailPending, Drain
  <1>4. CASE Exited(p)
    BY <1>4 DEF Exited
  <1>5. QED
    BY <1>1, <1>2, <1>3, <1>4 DEF Reader

\* So do spawn, close and the child itself.
LEMMA ProcessType ==
  ASSUME ChildTypeOK, NEW p \in Children,
         \/ Spawn(p) \/ BeginClose(p) \/ Close(p) \/ Die(p)
         \/ \E f \in Frames : Answer(p, f) \/ Emit(p, f)
  PROVE  ChildTypeOK'
  <1> USE DEF ChildTypeOK, callers, pipes, threads, ReaderStates, CloserStates
  <1>1. CASE Spawn(p)
    BY <1>1 DEF Spawn
  <1>2. CASE BeginClose(p)
    BY <1>2 DEF BeginClose
  <1>3. CASE DropStdin(p)
    BY <1>3 DEF DropStdin
  <1>4. CASE Reap(p)
    BY <1>4 DEF Reap
  <1>5. CASE MarkDead(p)
    BY <1>5 DEF MarkDead
  <1>6. CASE CloseDrain(p)
    BY <1>6 DEF CloseDrain, Drain
  <1>7. CASE Die(p)
    <2>1. \/ inbox' = [inbox EXCEPT ![p] = <<>>] /\ hears' = [hears EXCEPT ![p] = FALSE]
          \/ UNCHANGED <<hears, inbox>>
      BY <1>7 DEF Die
    <2>2. <<>> \in Seq(Calls)
      OBVIOUS
    <2>3. inbox' \in [Children -> Seq(Calls)]
      BY <2>1, <2>2
    <2>4. hears' \in [Children -> BOOLEAN] /\ speaks' \in [Children -> BOOLEAN]
      BY <1>7, <2>1 DEF Die
    <2>5. UNCHANGED <<call, to, got, pending, alive, stdin, stdout, reader, closer>>
      BY <1>7 DEF Die
    <2>6. QED
      BY <2>3, <2>4, <2>5
  <1>8. ASSUME NEW f \in Frames, Answer(p, f) PROVE ChildTypeOK'
    <2>1. inbox[p] \in Seq(Calls) /\ inbox[p] # <<>> /\ stdout[p] \in Seq(Frames)
      BY <1>8 DEF Answer
    <2>2. Tail(inbox[p]) \in Seq(Calls) /\ Append(stdout[p], f) \in Seq(Frames)
      BY <2>1
    <2>3. inbox' \in [Children -> Seq(Calls)] /\ stdout' \in [Children -> Seq(Frames)]
      BY <1>8, <2>2 DEF Answer
    <2>4. UNCHANGED <<call, to, got, pending, alive, stdin, hears, speaks, reader, closer>>
      BY <1>8 DEF Answer
    <2>5. QED
      BY <2>3, <2>4
  <1>9. ASSUME NEW f \in Frames, Emit(p, f) PROVE ChildTypeOK'
    <2>1. Append(stdout[p], f) \in Seq(Frames)
      OBVIOUS
    <2>2. QED
      BY <1>9, <2>1 DEF Emit
  <1>10. QED
    BY <1>1, <1>2, <1>3, <1>4, <1>5, <1>6, <1>7, <1>8, <1>9 DEF Close

\* Every step keeps the types.
LEMMA NextType == ChildTypeOK /\ [ChildNext]_childVars => ChildTypeOK'
  <1> SUFFICES ASSUME ChildTypeOK, [ChildNext]_childVars PROVE ChildTypeOK'
    OBVIOUS
  <1>1. CASE ChildNext
    BY <1>1, CallType, ReaderType, ProcessType DEF ChildNext
  <1>2. CASE UNCHANGED childVars
    BY <1>2 DEF childVars, callers, pipes, threads, ChildTypeOK
  <1>3. QED
    BY <1>1, <1>2

\* Every reachable state has the types of ChildTypeOK.
THEOREM ChildTypeCorrect == ChildSpec => []ChildTypeOK
  <1>1. ChildInit => ChildTypeOK
    BY InitType DEF ChildInit
  <1>2. QED
    BY <1>1, NextType, PTL DEF ChildSpec

-----------------------------------------------------------------------------
(* The calls in flight *)

\* No call is in flight at the start.
LEMMA InitInv == ASSUME NEW up, Started(up) PROVE ChildInv
  <1>1. ChildTypeOK
    BY InitType
  <1>2. PendingInFlight /\ ReachableOrAnswered /\ AnsweredOnlyOnce
    BY ChildAssumption DEF Started, PendingInFlight, ReachableOrAnswered, AnsweredOnlyOnce, InFlight
  <1>3. QED
    BY <1>1, <1>2 DEF ChildInv

\* A step that leaves the calls and their registrations alone.
LEMMA CallsUntouched ==
  ASSUME ChildInv, UNCHANGED <<call, to, got, pending>>
  PROVE  PendingInFlight' /\ ReachableOrAnswered' /\ AnsweredOnlyOnce'
  BY DEF ChildInv, PendingInFlight, ReachableOrAnswered, AnsweredOnlyOnce

\* Failing what is pending answers every call it unregisters.
LEMMA DrainInv ==
  ASSUME ChildInv, NEW p \in Children, Drain(p), UNCHANGED <<call, to>>
  PROVE  PendingInFlight' /\ ReachableOrAnswered' /\ AnsweredOnlyOnce'
  <1> USE DEF ChildInv, ChildTypeOK, PendingInFlight, ReachableOrAnswered, AnsweredOnlyOnce, InFlight
  <1>1. \A c \in Calls : got'[c] = IF c \in pending[p] THEN "exited" ELSE got[c]
    BY DEF Drain
  <1>2. \A q \in Children : pending'[q] = IF q = p THEN {} ELSE pending[q]
    BY DEF Drain
  <1>3. "exited" # NoId
    BY DEF NoId
  <1>4. PendingInFlight'
    BY <1>2
  <1>5. ReachableOrAnswered'
    BY <1>1, <1>2, <1>3
  <1>6. AnsweredOnlyOnce'
    BY <1>1, <1>2, <1>3
  <1>7. QED
    BY <1>4, <1>5, <1>6

\* Withdrawing a request: its caller gives up.
LEMMA WithdrawInv ==
  ASSUME ChildInv, NEW c \in Calls, call[c] \in InFlight,
         call' = [call EXCEPT ![c] = "failed"],
         pending' = [pending EXCEPT ![to[c]] = @ \ {c}],
         UNCHANGED <<to, got>>
  PROVE  PendingInFlight' /\ ReachableOrAnswered' /\ AnsweredOnlyOnce'
  <1>1. to[c] \in Children /\ pending \in [Children -> SUBSET Calls] /\ call \in [Calls -> CallStates]
    BY DEF ChildInv, ChildTypeOK
  <1>2. \A p \in Children : pending'[p] = IF p = to[c] THEN pending[p] \ {c} ELSE pending[p]
    BY <1>1
  <1>3. \A d \in Calls : call'[d] = IF d = c THEN "failed" ELSE call[d]
    BY <1>1
  <1>4. \A p \in Children : c \notin pending'[p]
    BY <1>2 DEF ChildInv, PendingInFlight
  <1>5. \A p \in Children : pending'[p] \subseteq pending[p] /\ pending[p] \subseteq pending'[p] \cup {c}
    BY <1>2
  <1>6. \A p \in Children : pending[p] \subseteq Calls
    BY <1>1
  <1>7. PendingInFlight'
    BY <1>3, <1>4, <1>5, <1>6 DEF ChildInv, PendingInFlight
  <1>8. ReachableOrAnswered'
    BY <1>1, <1>3, <1>5 DEF ChildInv, ChildTypeOK, ReachableOrAnswered, InFlight
  <1>9. AnsweredOnlyOnce'
    BY <1>3, <1>4, <1>5 DEF ChildInv, AnsweredOnlyOnce, InFlight
  <1>10. QED
    BY <1>7, <1>8, <1>9

\* A step of a call keeps what is known of the calls in flight ...
LEMMA CallInv ==
  ASSUME ChildInv, NEW c \in Calls,
         \/ \E p \in Children : Check(c, p)
         \/ Insert(c) \/ Write(c) \/ Receive(c) \/ Expire(c) \/ Forget(c)
  PROVE  PendingInFlight' /\ ReachableOrAnswered' /\ AnsweredOnlyOnce'
  <1> USE DEF ChildInv, ChildTypeOK, PendingInFlight, ReachableOrAnswered, AnsweredOnlyOnce,
              InFlight, Goto
  <1>1. ASSUME NEW p \in Children, Check(c, p)
        PROVE  PendingInFlight' /\ ReachableOrAnswered' /\ AnsweredOnlyOnce'
    BY <1>1 DEF Check
  <1>2. CASE Insert(c)
    BY <1>2 DEF Insert
  <1>3. CASE Write(c)
    <2>1. call[c] = "inserted" /\ UNCHANGED <<to, got>>
      BY <1>3 DEF Write
    <2>2. CASE call' = [call EXCEPT ![c] = "waiting"] /\ UNCHANGED pending
      BY <2>1, <2>2
    <2>3. CASE /\ call' = [call EXCEPT ![c] = "failed"]
               /\ pending' = [pending EXCEPT ![to[c]] = @ \ {c}]
      BY <2>1, <2>3, WithdrawInv
    <2>4. QED
      BY <1>3, <2>2, <2>3 DEF Write
  <1>4. CASE Receive(c)
    BY <1>4 DEF Receive
  <1>5. CASE Expire(c)
    BY <1>5 DEF Expire
  <1>6. CASE Forget(c)
    BY <1>6 DEF Forget
  <1>7. QED
    BY <1>1, <1>2, <1>3, <1>4, <1>5, <1>6

\* ... so does a frame that is routed to its call ...
LEMMA RouteInv ==
  ASSUME ChildInv, NEW p \in Children, Route(p)
  PROVE  PendingInFlight' /\ ReachableOrAnswered' /\ AnsweredOnlyOnce'
  <1>1. stdout[p] \in Seq(Frames) /\ stdout[p] # <<>>
    BY DEF Route, ChildInv, ChildTypeOK
  <1>2. PICK f \in Frames : f = Head(stdout[p])
    BY <1>1
  <1>3. f.event # NoId
    BY ChildAssumption
  <1>4. CASE f.id \in pending[p]
    <2>1. f.id \in Calls
      BY <1>4 DEF ChildInv, ChildTypeOK
    <2>2. /\ pending' = [pending EXCEPT ![p] = @ \ {f.id}]
          /\ got' = [got EXCEPT ![f.id] = f.event]
          /\ UNCHANGED <<call, to>>
      BY <1>2, <1>4 DEF Route
    <2>3. PendingInFlight'
      BY <2>2 DEF ChildInv, ChildTypeOK, PendingInFlight
    <2>4. ReachableOrAnswered'
      BY <2>1, <2>2, <1>3 DEF ChildInv, ChildTypeOK, ReachableOrAnswered
    <2>5. AnsweredOnlyOnce'
      <3>1. to[f.id] = p /\ call[f.id] \in InFlight
        BY <1>4 DEF ChildInv, PendingInFlight, InFlight
      <3>2. \A q \in Children : f.id \notin pending'[q]
        BY <2>2, <3>1 DEF ChildInv, ChildTypeOK, PendingInFlight
      <3>3. \A c \in Calls \ {f.id} : got'[c] = got[c]
        BY <2>1, <2>2 DEF ChildInv, ChildTypeOK
      <3>4. \A q \in Children : pending'[q] \subseteq pending[q]
        BY <2>2 DEF ChildInv, ChildTypeOK
      <3>5. QED
        BY <2>2, <3>1, <3>2, <3>3, <3>4 DEF ChildInv, AnsweredOnlyOnce, InFlight
    <2>6. QED
      BY <2>3, <2>4, <2>5
  <1>5. CASE f.id \notin pending[p]
    BY <1>2, <1>5, CallsUntouched DEF Route
  <1>6. QED
    BY <1>4, <1>5

\* ... so does any step of the reader thread ...
LEMMA ReaderInv ==
  ASSUME ChildInv, NEW p \in Children, Reader(p)
  PROVE  PendingInFlight' /\ ReachableOrAnswered' /\ AnsweredOnlyOnce'
  <1>1. CASE SeeEOF(p) \/ Exited(p)
    BY <1>1, CallsUntouched DEF SeeEOF, Exited, callers
  <1>2. CASE FailPending(p)
    BY <1>2, DrainInv DEF FailPending
  <1>3. QED
    BY <1>1, <1>2, RouteInv DEF Reader

\* ... and so does any step of the child or of its closing.
LEMMA ProcessInv ==
  ASSUME ChildInv, NEW p \in Children,
         \/ Spawn(p) \/ BeginClose(p) \/ Close(p) \/ Die(p)
         \/ \E f \in Frames : Answer(p, f) \/ Emit(p, f)
  PROVE  PendingInFlight' /\ ReachableOrAnswered' /\ AnsweredOnlyOnce'
  <1>1. CASE CloseDrain(p)
    BY <1>1, DrainInv DEF CloseDrain
  <1>2. CASE Spawn(p) \/ BeginClose(p) \/ DropStdin(p) \/ Reap(p) \/ MarkDead(p) \/ Die(p)
    BY <1>2, CallsUntouched DEF Spawn, BeginClose, DropStdin, Reap, MarkDead, Die, callers
  <1>3. ASSUME NEW f \in Frames, Answer(p, f) \/ Emit(p, f)
        PROVE  UNCHANGED <<call, to, got, pending>>
    BY <1>3 DEF Answer, Emit, callers
  <1>4. QED
    BY <1>1, <1>2, <1>3, CallsUntouched DEF Close

\* Every step keeps the invariant.
LEMMA NextInv == ChildInv /\ [ChildNext]_childVars => ChildInv'
  <1> SUFFICES ASSUME ChildInv, [ChildNext]_childVars PROVE ChildInv'
    OBVIOUS
  <1>1. ChildTypeOK'
    BY NextType DEF ChildInv
  <1>2. CASE ChildNext
    BY <1>1, <1>2, CallInv, ReaderInv, ProcessInv DEF ChildNext, ChildInv
  <1>3. CASE UNCHANGED childVars
    BY <1>1, <1>3, CallsUntouched DEF childVars, callers, ChildInv
  <1>4. QED
    BY <1>2, <1>3

\* The inductive invariant holds in every reachable state.
THEOREM ChildInvHolds == ChildSpec => []ChildInv
  <1>1. ChildInit => ChildInv
    BY InitInv DEF ChildInit
  <1>2. QED
    BY <1>1, NextInv, PTL DEF ChildSpec

\* No caller waits for an answer nobody can give it: while it waits, its request is
\* registered or something is in its channel.
THEOREM NoLostWaiter == ChildSpec => []WaitersReachable
  <1>1. ChildInv => WaitersReachable
    BY DEF ChildInv, ReachableOrAnswered, WaitersReachable, InFlight
  <1>2. QED
    BY <1>1, ChildInvHolds, PTL

\* `pending` never leaks: what is registered belongs to a call that has not returned.
THEOREM NothingLeftPending == ChildSpec => []PendingInFlight
  <1>1. ChildInv => PendingInFlight
    BY DEF ChildInv
  <1>2. QED
    BY <1>1, ChildInvHolds, PTL
=============================================================================

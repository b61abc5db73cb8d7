----------------------------- MODULE JsonlChild -----------------------------
(***************************************************************************)
(* A child process that speaks JSON lines over its pipes, as the desktop   *)
(* shell drives it (JsonlChild, desktop/src-tauri/src/jsonl.rs): callers   *)
(* register a request in `pending`, write it and wait; a reader thread     *)
(* pairs answers with requests by id and gives every other frame to the    *)
(* sink; at the end of stdout it declares the child dead and fails what is *)
(* pending.  close drops stdin, waits, kills and does the same.            *)
(*                                                                         *)
(* A call makes one request, under an id of its own: the call itself.  The *)
(* child may answer, emit events, and go away at any moment.               *)
(***************************************************************************)
EXTENDS Integers, Sequences, FiniteSets

CONSTANTS
  Calls,      \* the callers' requests
  Children,   \* the processes that may be started, 1 .. n in that order
  Frames,     \* what a child may write: [id, event], id a call or NoId
  MaxStdout   \* bound of the model: frames in the pipe when an event is added

NoId == "none"

ASSUME ChildAssumption ==
  /\ NoId \notin Calls
  /\ Children = 1 .. Cardinality(Children) /\ 1 \in Children
  /\ MaxStdout \in Nat
  /\ Frames \subseteq [id : Calls \cup {NoId}, event : STRING]
  /\ \A f \in Frames : f.event # NoId

VARIABLES
  call,       \* where each call is
  to,         \* the child it goes to
  got,        \* what its channel holds: an event name, or NoId
  pending,    \* per child: calls waiting for an answer
  alive,      \* per child: the flag `alive`
  stdin,      \* per child: the shell still holds the child's stdin
  hears, speaks,   \* per child: the child still holds its stdin, its stdout
  inbox, stdout,   \* per child: what the two pipes hold
  reader, closer   \* per child: where the reader thread, a close is

callers  == <<call, to, got>>
pipes    == <<stdin, hears, speaks, inbox, stdout>>
threads  == <<reader, closer>>
childVars == <<callers, pending, alive, pipes, threads>>

CallStates   == {"idle", "checked", "inserted", "waiting", "expired", "answered", "failed"}
ReaderStates == {"unborn", "reading", "dead", "drained", "done"}
CloserStates == {"no", "drop", "wait", "mark", "drain", "closed"}

Returned == {"answered", "failed"}

\* Put call c where pc says.
Goto(c, pc) == call' = [call EXCEPT ![c] = pc]

-----------------------------------------------------------------------------
(* request *)

\* The caller picks the child, looks at `alive`, and gives up at once if it is dead.
Check(c, p) ==
  /\ call[c] = "idle"
  /\ to' = [to EXCEPT ![c] = p]
  /\ Goto(c, IF alive[p] THEN "checked" ELSE "failed")
  /\ UNCHANGED <<got, pending, alive, pipes, threads>>

Insert(c) ==
  /\ call[c] = "checked"
  /\ pending' = [pending EXCEPT ![to[c]] = @ \cup {c}]
  /\ Goto(c, "inserted")
  /\ UNCHANGED <<to, got, alive, pipes, threads>>

\* Regression: the error of the write is not looked at.
WriteIgnoringErrors(c) ==
  LET p == to[c] IN
  /\ call[c] = "inserted"
  /\ Goto(c, "waiting")
  /\ IF stdin[p] /\ hears[p]
     THEN inbox' = [inbox EXCEPT ![p] = Append(@, c)] /\ UNCHANGED pending
     ELSE pending' = [pending EXCEPT ![p] = @ \ {c}] /\ UNCHANGED inbox
  /\ UNCHANGED <<to, got, alive, stdin, hears, speaks, stdout, threads>>

\* Writing fails once either end of the pipe is gone; the request is withdrawn.
Write(c) ==
  LET p == to[c] IN
  /\ call[c] = "inserted"
  /\ IF stdin[p] /\ hears[p]
     THEN /\ inbox' = [inbox EXCEPT ![p] = Append(@, c)]
          /\ Goto(c, "waiting")
          /\ UNCHANGED pending
     ELSE /\ pending' = [pending EXCEPT ![p] = @ \ {c}]
          /\ Goto(c, "failed")
          /\ UNCHANGED inbox
  /\ UNCHANGED <<to, got, alive, stdin, hears, speaks, stdout, threads>>

Receive(c) ==
  /\ call[c] = "waiting" /\ got[c] # NoId
  /\ Goto(c, IF got[c] = "ack" THEN "answered" ELSE "failed")
  /\ UNCHANGED <<to, got, pending, alive, pipes, threads>>

\* recv_timeout runs out ...
Expire(c) ==
  /\ call[c] = "waiting" /\ got[c] = NoId
  /\ Goto(c, "expired")
  /\ UNCHANGED <<to, got, pending, alive, pipes, threads>>

\* ... and the request is withdrawn.
Forget(c) ==
  /\ call[c] = "expired"
  /\ pending' = [pending EXCEPT ![to[c]] = @ \ {c}]
  /\ Goto(c, "failed")
  /\ UNCHANGED <<to, got, alive, pipes, threads>>

-----------------------------------------------------------------------------
(* The reader thread *)

\* route: an answer goes to the call registered under its id, the rest to the sink.
\* (Taking a call off `pending` and sending to its channel are one step here and in
\* Drain: a call that gives up in between does what it does a moment before.)
Route(p) ==
  LET f == Head(stdout[p]) IN
  /\ reader[p] = "reading" /\ stdout[p] # <<>>
  /\ stdout' = [stdout EXCEPT ![p] = Tail(@)]
  /\ IF f.id \in pending[p]
     THEN /\ pending' = [pending EXCEPT ![p] = @ \ {f.id}]
          /\ got' = [got EXCEPT ![f.id] = f.event]
     ELSE UNCHANGED <<pending, got>>
  /\ UNCHANGED <<call, to, alive, stdin, hears, speaks, inbox, threads>>

\* The frame Route would give to the sink, as a set.
ForSink(p) == {f \in {Head(stdout[p])} : f.id \notin pending[p]}

\* End of stdout: mark_dead.
SeeEOF(p) ==
  /\ reader[p] = "reading" /\ stdout[p] = <<>> /\ ~speaks[p]
  /\ alive' = [alive EXCEPT ![p] = FALSE]
  /\ reader' = [reader EXCEPT ![p] = "dead"]
  /\ UNCHANGED <<callers, pending, pipes, closer>>

\* fail_pending: every registered call gets SIDECAR_EXITED.
Drain(p) ==
  /\ got' = [c \in Calls |-> IF c \in pending[p] THEN "exited" ELSE got[c]]
  /\ pending' = [pending EXCEPT ![p] = {}]

\* Regression: no notice is given of a child that was closed on purpose.
ExitedUnlessClosed(p) ==
  /\ reader[p] = "drained" /\ closer[p] = "no"
  /\ reader' = [reader EXCEPT ![p] = "done"]
  /\ UNCHANGED <<callers, pending, alive, pipes, closer>>

\* Regression: the calls in flight are left to their timeouts.
FailNothing(p) ==
  /\ reader[p] = "dead"
  /\ reader' = [reader EXCEPT ![p] = "drained"]
  /\ UNCHANGED <<callers, pending, alive, pipes, closer>>

FailPending(p) ==
  /\ reader[p] = "dead"
  /\ Drain(p)
  /\ reader' = [reader EXCEPT ![p] = "drained"]
  /\ UNCHANGED <<call, to, alive, pipes, closer>>

\* The exit callback; what it does is the owner's business.
Exited(p) ==
  /\ reader[p] = "drained"
  /\ reader' = [reader EXCEPT ![p] = "done"]
  /\ UNCHANGED <<callers, pending, alive, pipes, closer>>

Reader(p) == Route(p) \/ SeeEOF(p) \/ FailPending(p) \/ Exited(p)

-----------------------------------------------------------------------------
(* spawn and close *)

Spawn(p) ==
  /\ reader[p] = "unborn" /\ \A q \in Children : q < p => reader[q] # "unborn"
  /\ reader' = [reader EXCEPT ![p] = "reading"]
  /\ alive' = [alive EXCEPT ![p] = TRUE] /\ stdin' = [stdin EXCEPT ![p] = TRUE]
  /\ hears' = [hears EXCEPT ![p] = TRUE] /\ speaks' = [speaks EXCEPT ![p] = TRUE]
  /\ UNCHANGED <<callers, pending, inbox, stdout, closer>>

BeginClose(p) ==
  /\ reader[p] # "unborn" /\ closer[p] = "no"
  /\ closer' = [closer EXCEPT ![p] = "drop"]
  /\ UNCHANGED <<callers, pending, alive, pipes, reader>>

DropStdin(p) ==
  /\ closer[p] = "drop"
  /\ stdin' = [stdin EXCEPT ![p] = FALSE]
  /\ closer' = [closer EXCEPT ![p] = "wait"]
  /\ UNCHANGED <<callers, pending, alive, hears, speaks, inbox, stdout, reader>>

\* Regression: waits for the child without killing it.
ReapPolitely(p) ==
  /\ closer[p] = "wait" /\ ~hears[p] /\ ~speaks[p]
  /\ closer' = [closer EXCEPT ![p] = "mark"]
  /\ UNCHANGED <<callers, pending, alive, pipes, reader>>

\* The child has exited, or five seconds are over and it is killed.
Reap(p) ==
  /\ closer[p] = "wait"
  /\ hears' = [hears EXCEPT ![p] = FALSE] /\ speaks' = [speaks EXCEPT ![p] = FALSE]
  /\ inbox' = [inbox EXCEPT ![p] = <<>>]
  /\ closer' = [closer EXCEPT ![p] = "mark"]
  /\ UNCHANGED <<callers, pending, alive, stdin, stdout, reader>>

MarkDead(p) ==
  /\ closer[p] = "mark"
  /\ alive' = [alive EXCEPT ![p] = FALSE]
  /\ closer' = [closer EXCEPT ![p] = "drain"]
  /\ UNCHANGED <<callers, pending, pipes, reader>>

CloseDrain(p) ==
  /\ closer[p] = "drain"
  /\ Drain(p)
  /\ closer' = [closer EXCEPT ![p] = "closed"]
  /\ UNCHANGED <<call, to, alive, pipes, reader>>

Close(p) == DropStdin(p) \/ Reap(p) \/ MarkDead(p) \/ CloseDrain(p)

-----------------------------------------------------------------------------
(* The child process, as far as the shell sees it *)

\* It reads the next request and answers it.
Answer(p, f) ==
  /\ hears[p] /\ speaks[p] /\ inbox[p] # <<>> /\ f.id = Head(inbox[p])
  /\ inbox' = [inbox EXCEPT ![p] = Tail(@)]
  /\ stdout' = [stdout EXCEPT ![p] = Append(@, f)]
  /\ UNCHANGED <<callers, pending, alive, stdin, hears, speaks, threads>>

Emit(p, f) ==
  /\ speaks[p] /\ f.id = NoId /\ Len(stdout[p]) < MaxStdout
  /\ stdout' = [stdout EXCEPT ![p] = Append(@, f)]
  /\ UNCHANGED <<callers, pending, alive, stdin, hears, speaks, inbox, threads>>

\* The process ends: its stdout is closed, and its stdin with it or a moment later;
\* what it had not read is lost.
Die(p) ==
  /\ hears[p]
  /\ speaks' = [speaks EXCEPT ![p] = FALSE]
  /\ \/ hears' = [hears EXCEPT ![p] = FALSE] /\ inbox' = [inbox EXCEPT ![p] = <<>>]
     \/ speaks[p] /\ UNCHANGED <<hears, inbox>>
  /\ UNCHANGED <<callers, pending, alive, stdin, stdout, threads>>

-----------------------------------------------------------------------------
\* No call yet; the children of `up` have been started.
Started(up) ==
  /\ call = [c \in Calls |-> "idle"] /\ to = [c \in Calls |-> 1]
  /\ got = [c \in Calls |-> NoId]
  /\ pending = [p \in Children |-> {}]
  /\ alive = [p \in Children |-> p \in up] /\ stdin = alive /\ hears = alive /\ speaks = alive
  /\ inbox = [p \in Children |-> <<>>] /\ stdout = inbox
  /\ reader = [p \in Children |-> IF p \in up THEN "reading" ELSE "unborn"]
  /\ closer = [p \in Children |-> "no"]

ChildInit == Started({})

ChildNext ==
  \/ \E c \in Calls : Insert(c) \/ Write(c) \/ Receive(c) \/ Expire(c) \/ Forget(c)
  \/ \E c \in Calls, p \in Children : reader[p] # "unborn" /\ Check(c, p)
  \/ \E p \in Children :
       \/ Reader(p) \/ Spawn(p) \/ BeginClose(p) \/ Close(p) \/ Die(p)
       \/ \E f \in Frames : Answer(p, f) \/ Emit(p, f)

ChildSpec == ChildInit /\ [][ChildNext]_childVars

\* The threads run when they can; timeouts, deaths and requests are nobody's duty.
CallThread(c) == Insert(c) \/ Write(c) \/ Receive(c) \/ Forget(c)

FairChildSpec ==
  /\ ChildSpec
  /\ \A c \in Calls : WF_childVars(CallThread(c))
  /\ \A p \in Children : WF_childVars(Reader(p)) /\ WF_childVars(Close(p))

-----------------------------------------------------------------------------
(* Properties *)

ChildTypeOK ==
  /\ call \in [Calls -> CallStates] /\ to \in [Calls -> Children]
  /\ got \in [Calls -> {NoId, "exited"} \cup {f.event : f \in Frames}]
  /\ pending \in [Children -> SUBSET Calls]
  /\ alive \in [Children -> BOOLEAN] /\ stdin \in [Children -> BOOLEAN]
  /\ hears \in [Children -> BOOLEAN] /\ speaks \in [Children -> BOOLEAN]
  /\ inbox \in [Children -> Seq(Calls)] /\ stdout \in [Children -> Seq(Frames)]
  /\ reader \in [Children -> ReaderStates] /\ closer \in [Children -> CloserStates]

\* A waiting caller can always be woken: its request is registered until
\* something has been put in its channel, so no answer overtakes the
\* registration and none is handed to the sink while its caller waits.
WaitersReachable ==
  \A c \in Calls : call[c] = "waiting" => c \in pending[to[c]] \/ got[c] # NoId

\* Nothing is left behind in `pending`: whatever is registered belongs to a call
\* that has not returned, under the child it was sent to.
PendingInFlight ==
  \A p \in Children : \A c \in pending[p] :
    to[c] = p /\ call[c] \in {"inserted", "waiting", "expired"}

\* `pending` and the callers agree: no caller waits in vain, and no entry outlives its call.
CallsRegistered == WaitersReachable /\ PendingInFlight

\* P1: a call registered when its child's stdout ends, and not given up yet, returns
\* without waiting for its timeout (no fairness makes a timeout expire).
PromptOnDeath ==
  \A c \in Calls :
    (call[c] = "waiting" /\ ~speaks[to[c]] /\ reader[to[c]] \in {"reading", "dead"})
      ~> (call[c] \in Returned)
=============================================================================

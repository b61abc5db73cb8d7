----------------------------- MODULE EventQueue -----------------------------
(***************************************************************************)
(* The desktop shell's bounded event queue (EventQueue, P8, in             *)
(* desktop/src-tauri/src/jsonl.rs): the stdout reader of the agent pushes  *)
(* frames and never waits, one forwarding thread takes them and hands them *)
(* to the interface.  A full queue gives up its oldest decorative frame    *)
(* silently, else its oldest frame, counted in `dropped` and announced     *)
(* before the next frame taken.                                            *)
(*                                                                         *)
(* Frames are numbered as they are pushed; sent[n] is the kind of frame n. *)
(***************************************************************************)
EXTENDS Integers, Sequences, FiniteSets, SequencesExt

CONSTANTS
  Capacity,   \* EVENT_QUEUE_CAPACITY
  MaxPushes   \* bound of the model: frames pushed in one behaviour

ASSUME CapacityAssumption == Capacity \in Nat \ {0} /\ MaxPushes \in Nat

VARIABLES
  sent,       \* history: the kinds of the frames pushed
  queue,      \* Slots.queue, by frame number
  dropped, announced, closed,   \* the other Slots
  owned,      \* somebody besides the forwarding thread holds the queue
  thread,     \* where the forwarding thread is
  hand,       \* what take returned: losses to announce, and the frame
  seen, told  \* history: frames handed over, losses announced

slots == <<queue, dropped, announced, closed>>
vars  == <<sent, slots, owned, thread, hand, seen, told>>

Frames == 1 .. Len(sent)

is_decorative(n) == sent[n] = "deco"

Decorative == {i \in DOMAIN queue : is_decorative(queue[i])}

\* Regression: the bound is checked one frame too late.
FullTooLate == Len(queue) > Capacity

Full == Len(queue) >= Capacity

-----------------------------------------------------------------------------
(* push, called by the reader of the agent's stdout                        *)

PushFrame(kind, kept) ==
  /\ owned /\ Len(sent) < MaxPushes
  /\ sent' = Append(sent, kind)
  /\ queue' = Append(kept, Len(sent) + 1)
  /\ UNCHANGED <<announced, closed, owned, thread, hand, seen, told>>

PushIntoRoom(kind) ==
  /\ ~Full
  /\ PushFrame(kind, queue)
  /\ UNCHANGED dropped

PushDroppingDecoration(kind) ==
  /\ Full
  /\ \E i \in Decorative :
       /\ \A j \in Decorative : i <= j
       /\ PushFrame(kind, RemoveAt(queue, i))
  /\ UNCHANGED dropped

\* Regression: the loss is not counted.
PushDroppingOldestSilently(kind) ==
  /\ Full /\ Decorative = {}
  /\ PushFrame(kind, Tail(queue))
  /\ UNCHANGED dropped

PushDroppingOldest(kind) ==
  /\ Full /\ Decorative = {}
  /\ PushFrame(kind, Tail(queue))
  /\ dropped' = dropped + 1

Push(kind) ==
  PushIntoRoom(kind) \/ PushDroppingDecoration(kind) \/ PushDroppingOldest(kind)

-----------------------------------------------------------------------------
(* The forwarding thread: upgrade, take, deliver                           *)

\* weak.upgrade(): fails once nobody else holds the queue.
Upgrade ==
  /\ thread = "upgrade"
  /\ thread' = IF owned THEN "take" ELSE "exited"
  /\ UNCHANGED <<sent, slots, owned, hand, seen, told>>

\* Regression: an empty queue ends the thread, closed or not.
TakeWithoutWaiting ==
  /\ thread = "take"
  /\ IF queue # <<>>
     THEN /\ queue' = Tail(queue)
          /\ hand' = [lost |-> dropped - announced, frame |-> Head(queue)]
          /\ announced' = dropped
          /\ thread' = IF dropped > announced THEN "warn" ELSE "deliver"
     ELSE thread' = "exited" /\ UNCHANGED <<queue, hand, announced>>
  /\ UNCHANGED <<sent, dropped, closed, owned, seen, told>>

\* take: with no frame it waits, unless the queue is closed.
Take ==
  /\ thread = "take"
  /\ IF queue # <<>>
     THEN /\ queue' = Tail(queue)
          /\ hand' = [lost |-> dropped - announced, frame |-> Head(queue)]
          /\ announced' = dropped
          /\ thread' = IF dropped > announced THEN "warn" ELSE "deliver"
     ELSE /\ closed /\ thread' = "exited"
          /\ UNCHANGED <<queue, hand, announced>>
  /\ UNCHANGED <<sent, dropped, closed, owned, seen, told>>

DeliverWarning ==
  /\ thread = "warn"
  /\ told' = told + hand.lost
  /\ thread' = "deliver"
  /\ UNCHANGED <<sent, slots, owned, hand, seen>>

\* The frame is handed over and the thread lets go of the queue: the last
\* holder to do so closes it (Drop).
DeliverFrame ==
  /\ thread = "deliver"
  /\ seen' = Append(seen, hand.frame)
  /\ thread' = "upgrade"
  /\ closed' = (closed \/ ~owned)
  /\ UNCHANGED <<sent, queue, dropped, announced, owned, hand, told>>

Forward == Upgrade \/ Take \/ DeliverWarning \/ DeliverFrame

\* Regression: the owner closes the queue whoever else holds it.
ReleaseClosing ==
  /\ owned /\ owned' = FALSE /\ closed' = TRUE
  /\ UNCHANGED <<sent, queue, dropped, announced, thread, hand, seen, told>>

\* The shell lets go of the queue; Drop closes it unless the thread holds it.
Release ==
  /\ owned /\ owned' = FALSE
  /\ closed' = (closed \/ thread \in {"upgrade", "exited"})
  /\ UNCHANGED <<sent, queue, dropped, announced, thread, hand, seen, told>>

Init ==
  /\ sent = <<>> /\ queue = <<>> /\ dropped = 0 /\ announced = 0
  /\ closed = FALSE /\ owned = TRUE
  /\ thread = "upgrade" /\ hand = [lost |-> 0, frame |-> 0]
  /\ seen = <<>> /\ told = 0

Next == Forward \/ Release \/ \E kind \in {"real", "deco"} : Push(kind)

Spec == Init /\ [][Next]_vars

\* The thread runs whenever it can; pushes and the release are the shell's choice.
FairSpec == Spec /\ WF_vars(Forward)

-----------------------------------------------------------------------------
(* Properties *)

\* Type invariant, with the bound on the queue.
TypeOK ==
  /\ sent \in Seq({"real", "deco"}) /\ Len(sent) <= MaxPushes
  /\ queue \in Seq(Frames) /\ Len(queue) <= Capacity
  /\ dropped \in Nat /\ announced \in Nat /\ announced <= dropped /\ told \in Nat
  /\ closed \in BOOLEAN /\ owned \in BOOLEAN
  /\ thread \in {"upgrade", "take", "warn", "deliver", "exited"}
  /\ hand \in [lost : Nat, frame : 0 .. Len(sent)]
  /\ thread \in {"warn", "deliver"} => hand.frame \in Frames
  /\ seen \in Seq(Frames)

Stream == INSTANCE ReportedStream WITH sent <- sent, seen <- seen, told <- told

\* The queue implements the abstract stream: frames are shown in order and at
\* most once, and when one is shown the losses announced so far are exactly the
\* real events missing before it ("the warning precedes the frame", P8).
ReportsEveryLoss == Stream!Spec

\* Nobody ever waits on a closed queue: the queue is closed by its last holder,
\* and a waiting thread is a holder.  The None branch of take is dead code, and
\* a forwarding thread that waits when the shell lets go waits for ever.
NoWaitOnClosed == thread = "take" => ~closed

LastShown == IF seen = <<>> THEN 0 ELSE seen[Len(seen)]

\* While the shell keeps the queue, every frame pushed is eventually shown or
\* overtaken by a later one: the thread never strands a frame.
EventuallyShown ==
  \A n \in 1 .. MaxPushes :
    (owned /\ n <= Len(sent)) ~> (LastShown >= n \/ ~owned)
=============================================================================

--------------------------- MODULE ReportedStream ---------------------------
(***************************************************************************)
(* What the user interface is promised about the agent's events: frames    *)
(* arrive in the order they were sent, frames may be lost on the way, and  *)
(* before a frame is shown the interface has been told exactly how many    *)
(* frames of substance are missing in front of it.  Streaming decorations  *)
(* (llm_delta) may vanish without a word.                                  *)
(***************************************************************************)
EXTENDS Integers, Sequences, FiniteSets

VARIABLES
  sent,   \* the kind of every frame sent so far, by its number
  seen,   \* the frames shown, in order
  told    \* how many frames the interface was told are missing

Kinds == {"real", "deco"}

Shown == {seen[i] : i \in DOMAIN seen}

LastShown == IF seen = <<>> THEN 0 ELSE seen[Len(seen)]

\* Frames of substance up to n that were not shown.
MissingUpTo(n) == {k \in 1 .. n : sent[k] = "real" /\ k \notin Shown}

Send ==
  /\ \E kind \in Kinds : sent' = Append(sent, kind)
  /\ UNCHANGED <<seen, told>>

\* Announces some of the losses; none of them may be shown afterwards.
Report ==
  /\ told' \in told + 1 .. Cardinality(MissingUpTo(Len(sent)))
  /\ UNCHANGED <<sent, seen>>

Show ==
  /\ \E n \in LastShown + 1 .. Len(sent) :
       /\ told = Cardinality(MissingUpTo(n - 1))
       /\ seen' = Append(seen, n)
  /\ UNCHANGED <<sent, told>>

Init == sent = <<>> /\ seen = <<>> /\ told = 0

Next == Send \/ Report \/ Show

Spec == Init /\ [][Next]_<<sent, seen, told>>
=============================================================================

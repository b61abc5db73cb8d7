-------------------------- MODULE EventQueue_proofs --------------------------
(* Theorems about the event queue, for every capacity. *)
EXTENDS EventQueue, FiniteSetTheorems, SequenceTheorems, TLAPS

-----------------------------------------------------------------------------
(* Lemmas on the sequences the queue goes through *)

\* Removing one element, wherever it is, leaves a shorter sequence of the same set.
LEMMA RemoveAtType ==
  ASSUME NEW S, NEW s \in Seq(S), NEW i \in DOMAIN s
  PROVE  RemoveAt(s, i) \in Seq(S) /\ Len(RemoveAt(s, i)) = Len(s) - 1
  BY DEF RemoveAt

\* A sequence over a set is one over any larger set.
LEMMA SeqMonotone ==
  ASSUME NEW S, NEW T, S \subseteq T, NEW s \in Seq(S)
  PROVE  s \in Seq(T)
  OBVIOUS

-----------------------------------------------------------------------------
(* Type correctness *)

\* Pushing behind a part of the queue that leaves room keeps the types.
LEMMA PushFrameType ==
  ASSUME TypeOK, NEW kind \in {"real", "deco"}, NEW kept \in Seq(Frames),
         Len(kept) < Capacity, PushFrame(kind, kept), dropped' \in {dropped, dropped + 1}
  PROVE  TypeOK'
  <1>1. sent' \in Seq({"real", "deco"}) /\ Len(sent') = Len(sent) + 1 /\ Len(sent') <= MaxPushes
    BY CapacityAssumption DEF PushFrame, TypeOK
  <1>2. Frames \subseteq Frames' /\ Len(sent) + 1 \in Frames'
    BY <1>1 DEF Frames, TypeOK
  <1>3. kept \in Seq(Frames') /\ seen \in Seq(Frames')
    BY <1>2, SeqMonotone DEF TypeOK
  <1>4. queue' \in Seq(Frames') /\ Len(queue') <= Capacity
    BY <1>2, <1>3, CapacityAssumption DEF PushFrame
  <1>5. dropped' \in Nat /\ announced' \in Nat /\ announced' <= dropped' /\ told' \in Nat
    BY DEF PushFrame, TypeOK
  <1>6. hand' \in [lost : Nat, frame : 0 .. Len(sent')]
    BY <1>1 DEF PushFrame, TypeOK
  <1>7. thread' \in {"warn", "deliver"} => hand'.frame \in Frames'
    BY <1>2 DEF PushFrame, TypeOK
  <1>8. QED
    BY <1>1, <1>3, <1>4, <1>5, <1>6, <1>7 DEF PushFrame, TypeOK

\* Every reachable state has the types of TypeOK, and the queue never holds more
\* than Capacity frames.
THEOREM TypeCorrect == Spec => []TypeOK
  <1>1. Init => TypeOK
    <2>1. <<>> \in Seq({"real", "deco"}) /\ <<>> \in Seq(Frames) /\ Len(<<>>) = 0
      OBVIOUS
    <2> SUFFICES ASSUME Init PROVE TypeOK
      OBVIOUS
    <2>2. sent \in Seq({"real", "deco"}) /\ Len(sent) = 0 /\ MaxPushes \in Nat
      BY <2>1, CapacityAssumption DEF Init
    <2>3. queue \in Seq(Frames) /\ Len(queue) <= Capacity /\ seen \in Seq(Frames)
      BY <2>1, CapacityAssumption DEF Init
    <2>4. hand \in [lost : Nat, frame : 0 .. Len(sent)]
      BY <2>2 DEF Init
    <2>5. closed \in BOOLEAN /\ owned \in BOOLEAN
      BY DEF Init
    <2>6. dropped \in Nat /\ announced \in Nat /\ announced <= dropped /\ told \in Nat
      BY DEF Init
    <2>7. thread = "upgrade"
      BY DEF Init
    <2>8. QED
      BY <2>2, <2>3, <2>4, <2>5, <2>6, <2>7 DEF TypeOK
  <1>2. TypeOK /\ [Next]_vars => TypeOK'
    <2> SUFFICES ASSUME TypeOK, [Next]_vars PROVE TypeOK'
      OBVIOUS
    <2> USE CapacityAssumption
    <2>1. ASSUME NEW kind \in {"real", "deco"}, PushIntoRoom(kind) PROVE TypeOK'
      BY <2>1, PushFrameType DEF PushIntoRoom, Full, TypeOK
    <2>2. ASSUME NEW kind \in {"real", "deco"}, PushDroppingDecoration(kind) PROVE TypeOK'
      <3>1. PICK i \in Decorative : PushFrame(kind, RemoveAt(queue, i))
        BY <2>2 DEF PushDroppingDecoration
      <3>2. RemoveAt(queue, i) \in Seq(Frames) /\ Len(RemoveAt(queue, i)) < Capacity
        BY RemoveAtType DEF TypeOK, Decorative
      <3>3. QED
        BY <2>2, <3>1, <3>2, PushFrameType DEF PushDroppingDecoration, TypeOK
    <2>3. ASSUME NEW kind \in {"real", "deco"}, PushDroppingOldest(kind) PROVE TypeOK'
      <3>1. Tail(queue) \in Seq(Frames) /\ Len(Tail(queue)) < Capacity
        BY <2>3 DEF PushDroppingOldest, Full, TypeOK
      <3>2. QED
        BY <2>3, <3>1, PushFrameType DEF PushDroppingOldest
    <2>4. CASE Upgrade
      BY <2>4 DEF Upgrade, TypeOK, Frames, slots
    <2>5. CASE Take
      <3>1. CASE queue # <<>>
        <4>1. Head(queue) \in Frames /\ Tail(queue) \in Seq(Frames) /\ Len(Tail(queue)) <= Capacity
          BY <3>1 DEF TypeOK
        <4>2. dropped - announced \in Nat
          BY DEF TypeOK
        <4>3. Frames' = Frames /\ Frames \subseteq 0 .. Len(sent)
          BY <2>5 DEF Take, Frames
        <4>4. /\ hand' = [lost |-> dropped - announced, frame |-> Head(queue)]
              /\ queue' = Tail(queue) /\ announced' = dropped
              /\ thread' \in {"warn", "deliver"}
              /\ UNCHANGED <<sent, dropped, closed, owned, seen, told>>
          BY <2>5, <3>1 DEF Take
        <4>5. hand' \in [lost : Nat, frame : 0 .. Len(sent)] /\ hand'.frame \in Frames
          BY <4>1, <4>2, <4>3, <4>4
        <4>6. QED
          BY <4>1, <4>3, <4>4, <4>5 DEF TypeOK
      <3>2. CASE queue = <<>>
        BY <2>5, <3>2 DEF Take, TypeOK, Frames
      <3>3. QED
        BY <3>1, <3>2
    <2>6. CASE DeliverWarning
      BY <2>6 DEF DeliverWarning, TypeOK, Frames, slots
    <2>7. CASE DeliverFrame
      BY <2>7 DEF DeliverFrame, TypeOK, Frames
    <2>8. CASE Release
      BY <2>8 DEF Release, TypeOK, Frames
    <2>9. CASE UNCHANGED vars
      BY <2>9 DEF vars, slots, TypeOK, Frames
    <2>10. QED
      BY <2>1, <2>2, <2>3, <2>4, <2>5, <2>6, <2>7, <2>8, <2>9 DEF Next, Push, Forward
  <1>3. QED
    BY <1>1, <1>2, PTL DEF Spec

-----------------------------------------------------------------------------
(* The inductive invariant *)

InHand == thread \in {"warn", "deliver"}

Queued == {queue[i] : i \in DOMAIN queue}

\* The last frame that left the queue by take.
LastTaken == IF InHand THEN hand.frame ELSE LastShown

\* The real events the queue gave up.
Lost == {k \in Frames : sent[k] = "real" /\ k \notin Stream!Shown /\ k \notin Queued
                          /\ ~(InHand /\ k = hand.frame)}

\* Frames leave in the order of their numbers.
Ordered ==
  /\ \A i, j \in DOMAIN queue : i < j => queue[i] < queue[j]
  /\ \A i \in DOMAIN queue : LastTaken < queue[i]
  /\ \A i \in DOMAIN seen : seen[i] <= LastShown
  /\ InHand => LastShown < hand.frame

\* The counters tell the real events lost, all older than what is queued.
Accounted ==
  /\ dropped = Cardinality(Lost)
  /\ \A k \in Lost, q \in Queued : k < q
  /\ told = announced - (IF thread = "warn" THEN hand.lost ELSE 0)
  /\ thread = "warn" => hand.lost > 0
  /\ InHand => announced = Cardinality(Stream!MissingUpTo(hand.frame - 1))

IInv == TypeOK /\ Ordered /\ Accounted

Elements(s) == {s[i] : i \in DOMAIN s}

Ascending(s) == \A i, j \in DOMAIN s : i < j => s[i] < s[j]

\* The sets of lost frames can be counted.
LEMMA LostFinite ==
  ASSUME TypeOK
  PROVE  /\ IsFiniteSet(Lost)
         /\ \A n \in Nat : IsFiniteSet(Stream!MissingUpTo(n))
  <1>1. \A n \in Nat : IsFiniteSet(1 .. n)
    BY FS_Interval
  <1>2. Len(sent) \in Nat
    BY DEF TypeOK
  <1>3. Lost \subseteq 1 .. Len(sent)
    BY DEF Lost, Frames
  <1>4. \A n \in Nat : Stream!MissingUpTo(n) \subseteq 1 .. n
    BY DEF Stream!MissingUpTo
  <1>5. QED
    BY <1>1, <1>2, <1>3, <1>4, FS_Subset

\* Shown frames are behind, queued frames ahead of the last one taken.
LEMMA LastTypes ==
  ASSUME TypeOK, Ordered
  PROVE  /\ LastShown \in Nat /\ LastTaken \in Nat /\ LastShown <= LastTaken
         /\ \A k \in Stream!Shown : k \in Frames /\ k <= LastShown
         /\ \A k \in Queued : k \in Frames /\ LastTaken < k
  <1>1. LastShown \in Nat
    BY DEF TypeOK, LastShown, Frames
  <1>2. LastTaken \in Nat /\ LastShown <= LastTaken
    BY <1>1 DEF TypeOK, Ordered, LastTaken, InHand, Frames
  <1>3. \A k \in Stream!Shown : k \in Frames /\ k <= LastShown
    BY DEF TypeOK, Ordered, Stream!Shown
  <1>4. \A k \in Queued : k \in Frames /\ LastTaken < k
    BY DEF TypeOK, Ordered, Queued
  <1>5. QED
    BY <1>1, <1>2, <1>3, <1>4

\* What a push does when it keeps an ascending part `kept` of the queue.
LEMMA PushStep ==
  ASSUME TypeOK, Ordered, NEW kind \in {"real", "deco"}, NEW kept \in Seq(Frames),
         PushFrame(kind, kept), Ascending(kept), Elements(kept) \subseteq Queued
  PROVE  /\ Ordered'
         /\ Lost' = Lost \cup {k \in Queued \ Elements(kept) : sent[k] = "real"}
         /\ Queued' = Elements(kept) \cup {Len(sent) + 1}
         /\ InHand => Stream!MissingUpTo(hand.frame - 1)' = Stream!MissingUpTo(hand.frame - 1)
  <1>1. /\ Len(sent) \in Nat /\ Len(sent') = Len(sent) + 1 /\ sent'[Len(sent) + 1] = kind
        /\ \A k \in Frames : sent'[k] = sent[k]
        /\ Frames' = Frames \cup {Len(sent) + 1}
    BY DEF PushFrame, TypeOK, Frames
  <1>2. UNCHANGED <<thread, hand, seen>>
    BY DEF PushFrame
  <1>3. UNCHANGED <<LastShown, LastTaken, InHand, Stream!Shown>>
    BY <1>2 DEF LastShown, LastTaken, InHand, Stream!Shown
  <1>4. /\ queue' \in Seq(Frames') /\ Len(queue') = Len(kept) + 1
        /\ queue'[Len(kept) + 1] = Len(sent) + 1
        /\ \A i \in 1 .. Len(kept) : queue'[i] = kept[i] /\ kept[i] \in Elements(kept)
    BY <1>1 DEF PushFrame, Elements
  <1>5. Queued' = Elements(kept) \cup {Len(sent) + 1}
    BY <1>4 DEF Queued, Elements
  <1>6. \A k \in Queued : k \in Frames /\ LastTaken < k
    BY LastTypes
  <1>7. LastTaken \in Nat /\ LastTaken <= Len(sent)
    BY DEF TypeOK, Ordered, LastShown, LastTaken, InHand, Frames
  <1>8. \A i, j \in DOMAIN queue' : i < j => queue'[i] < queue'[j]
    <2> SUFFICES ASSUME NEW i \in DOMAIN queue', NEW j \in DOMAIN queue', i < j
                 PROVE  queue'[i] < queue'[j]
      OBVIOUS
    <2>1. i \in 1 .. Len(kept) /\ queue'[i] = kept[i] /\ kept[i] \in 1 .. Len(sent)
      BY <1>4 DEF Frames
    <2>2. CASE j = Len(kept) + 1
      BY <1>1, <1>4, <2>1, <2>2
    <2>3. CASE j \in 1 .. Len(kept)
      BY <1>4, <2>1, <2>3 DEF Ascending
    <2>4. QED
      BY <1>4, <2>2, <2>3
  <1>9. \A i \in DOMAIN queue' : LastTaken < queue'[i]
    BY <1>1, <1>4, <1>6, <1>7
  <1>10. Ordered'
    BY <1>2, <1>3, <1>8, <1>9 DEF Ordered
  <1>11. Len(sent) + 1 \in Queued'
    BY <1>5
  <1>12. \A k \in Queued : k \notin Stream!Shown /\ ~(InHand /\ k = hand.frame)
    BY LastTypes DEF LastTaken, Frames
  <1>13. Lost' = {k \in Frames : /\ sent[k] = "real" /\ k \notin Stream!Shown
                                 /\ k \notin Elements(kept) /\ ~(InHand /\ k = hand.frame)}
    <2>1. \A k \in Frames : k # Len(sent) + 1
      BY <1>1 DEF Frames
    <2>2. QED
      BY <1>1, <1>2, <1>3, <1>5, <2>1 DEF Lost
  <1>14. Lost' = Lost \cup {k \in Queued \ Elements(kept) : sent[k] = "real"}
    BY <1>6, <1>12, <1>13 DEF Lost
  <1>15. ASSUME InHand
         PROVE  Stream!MissingUpTo(hand.frame - 1)' = Stream!MissingUpTo(hand.frame - 1)
    <2>1. \A k \in 1 .. hand.frame - 1 : k \in Frames
      BY <1>15 DEF InHand, TypeOK, Frames
    <2>2. QED
      BY <1>1, <1>2, <1>3, <2>1 DEF Stream!MissingUpTo
  <1>16. QED
    BY <1>5, <1>10, <1>14, <1>15

\* The end of a sequence, from position m on.
LEMMA Suffix ==
  ASSUME NEW s \in Seq(Nat), NEW m \in 1 .. Len(s) + 1
  PROVE  /\ SubSeq(s, m, Len(s)) \in Seq(Nat)
         /\ Len(SubSeq(s, m, Len(s))) = Len(s) - m + 1
         /\ \A j \in 1 .. Len(s) - m + 1 : SubSeq(s, m, Len(s))[j] = s[m + j - 1]
  <1>1. SubSeq(s, m, Len(s)) \in Seq(Nat)
    OBVIOUS
  <1>2. Len(SubSeq(s, m, Len(s))) = Len(s) - m + 1
    OBVIOUS
  <1>3. ASSUME NEW j \in 1 .. Len(s) - m + 1 PROVE SubSeq(s, m, Len(s))[j] = s[m + j - 1]
    OBVIOUS
  <1>4. QED
    BY <1>1, <1>2, <1>3

\* Taking one element out of an ascending sequence.
LEMMA RemoveAtAscending ==
  ASSUME NEW s \in Seq(Nat), Ascending(s), NEW i \in DOMAIN s
  PROVE  /\ Ascending(RemoveAt(s, i))
         /\ Elements(RemoveAt(s, i)) = Elements(s) \ {s[i]}
  <1>1. PICK r : r = RemoveAt(s, i)
    OBVIOUS
  <1>2. Len(s) \in Nat /\ i \in 1 .. Len(s) /\ DOMAIN s = 1 .. Len(s) /\ \A j \in 1 .. Len(s) : s[j] \in Nat
    OBVIOUS
  <1>3. DOMAIN r = 1 .. Len(s) - 1
    BY <1>1, <1>2, RemoveAtType
  <1>4. \A j \in 1 .. Len(s) - 1 : r[j] = IF j < i THEN s[j] ELSE s[j + 1]
    <2>1. PICK a : a = SubSeq(s, 1, i - 1)
      OBVIOUS
    <2>2. PICK b : b = SubSeq(s, i + 1, Len(s))
      OBVIOUS
    <2>3. a \in Seq(Nat) /\ Len(a) = i - 1 /\ \A j \in 1 .. i - 1 : a[j] = s[j]
      BY <1>2, <2>1
    <2>4. b \in Seq(Nat) /\ Len(b) = Len(s) - i /\ \A j \in 1 .. Len(s) - i : b[j] = s[i + j]
      <3>1. PICK m \in 1 .. Len(s) + 1 : m = i + 1
        BY <1>2
      <3>2. b \in Seq(Nat) /\ Len(b) = Len(s) - m + 1
        BY <2>2, <3>1, Suffix
      <3>3. \A j \in 1 .. Len(s) - m + 1 : b[j] = s[m + j - 1]
        BY <2>2, <3>1, Suffix
      <3>4. i \in Int /\ Len(s) \in Int
        BY <1>2
      <3>5. Len(s) - m + 1 = Len(s) - i
        BY <3>1, <3>4
      <3>6. ASSUME NEW j \in Int PROVE m + j - 1 = i + j
        BY <3>1, <3>4
      <3>7. \A j \in 1 .. Len(s) - i : b[j] = s[i + j]
        <4> SUFFICES ASSUME NEW j \in 1 .. Len(s) - i PROVE b[j] = s[i + j]
          OBVIOUS
        <4>1. j \in 1 .. Len(s) - m + 1 /\ m + j - 1 = i + j
          BY <3>4, <3>5, <3>6
        <4>2. QED
          BY <3>3, <4>1, Zenon
      <3>8. QED
        BY <3>2, <3>5, <3>7
    <2>5. r = a \o b
      BY <1>1, <2>1, <2>2 DEF RemoveAt
    <2>6. ASSUME NEW j \in 1 .. Len(s) - 1, j < i PROVE r[j] = s[j]
      BY <1>2, <2>3, <2>4, <2>5, <2>6
    <2>7. ASSUME NEW j \in 1 .. Len(s) - 1, ~(j < i) PROVE r[j] = s[j + 1]
      <3>1. j - (i - 1) \in 1 .. Len(s) - i /\ i + (j - (i - 1)) = j + 1
        BY <1>2, <2>7
      <3>2. r[j] = b[j - (i - 1)]
        <4>1. j \in 1 .. Len(a) + Len(b) /\ ~(j <= Len(a))
          BY <1>2, <2>3, <2>4, <2>7
        <4>2. (a \o b)[j] = b[j - Len(a)]
          BY <2>3, <2>4, <4>1, ConcatProperties, Zenon
        <4>3. QED
          BY <2>3, <2>5, <4>2, Zenon
      <3>3. QED
        BY <2>4, <3>1, <3>2
    <2>8. QED
      BY <2>6, <2>7
  <1>5. \A j, k \in 1 .. Len(s) : j < k => s[j] < s[k]
    BY <1>2 DEF Ascending
  <1>6. Ascending(r)
    <2> SUFFICES ASSUME NEW j \in 1 .. Len(s) - 1, NEW k \in 1 .. Len(s) - 1, j < k
                 PROVE  r[j] < r[k]
      BY <1>3 DEF Ascending
    <2>1. CASE k < i
      BY <1>2, <1>4, <1>5, <2>1
    <2>2. CASE ~(k < i)
      BY <1>2, <1>4, <1>5, <2>2
    <2>3. QED
      BY <2>1, <2>2
  <1>7. ASSUME NEW j \in 1 .. Len(s) - 1 PROVE r[j] \in Elements(s) \ {s[i]}
    <2>1. CASE j < i
      <3>1. r[j] = s[j] /\ s[j] < s[i]
        BY <1>2, <1>4, <1>5, <2>1
      <3>2. s[j] \in Elements(s) /\ s[j] # s[i]
        BY <1>2, <2>1, <3>1 DEF Elements
      <3>3. QED
        BY <3>1, <3>2
    <2>2. CASE ~(j < i)
      <3>1. j + 1 \in 1 .. Len(s) /\ i < j + 1
        BY <1>2, <2>2
      <3>2. r[j] = s[j + 1] /\ s[i] < s[j + 1]
        BY <1>2, <1>4, <1>5, <2>2, <3>1
      <3>3. s[j + 1] \in Elements(s) /\ s[j + 1] # s[i]
        BY <1>2, <3>1, <3>2 DEF Elements
      <3>4. QED
        BY <3>2, <3>3
    <2>3. QED
      BY <2>1, <2>2
  <1>8. ASSUME NEW j \in 1 .. Len(s), j # i PROVE s[j] \in Elements(r)
    <2>1. CASE j < i
      <3>1. j \in DOMAIN r /\ r[j] = s[j]
        BY <1>2, <1>3, <1>4, <2>1
      <3>2. QED
        BY <3>1 DEF Elements
    <2>2. CASE j > i
      <3>1. j - 1 \in 1 .. Len(s) - 1 /\ ~(j - 1 < i) /\ (j - 1) + 1 = j
        BY <1>2, <2>2
      <3>2. j - 1 \in DOMAIN r /\ r[j - 1] = s[j]
        BY <1>3, <1>4, <3>1
      <3>3. QED
        BY <3>2 DEF Elements
    <2>3. QED
      BY <1>2, <1>8, <2>1, <2>2
  <1>9. Elements(r) = Elements(s) \ {s[i]}
    BY <1>2, <1>3, <1>7, <1>8 DEF Elements
  <1>10. QED
    BY <1>1, <1>6, <1>9

\* Taking the head off an ascending sequence.
LEMMA TailAscending ==
  ASSUME NEW s \in Seq(Nat), Ascending(s), s # <<>>
  PROVE  /\ Tail(s) \in Seq(Nat) /\ Ascending(Tail(s))
         /\ Elements(Tail(s)) = Elements(s) \ {Head(s)}
         /\ \A k \in Elements(Tail(s)) : Head(s) < k
  <1>1. /\ Tail(s) \in Seq(Nat) /\ Len(Tail(s)) = Len(s) - 1 /\ Head(s) = s[1]
        /\ \A j \in 1 .. Len(s) - 1 : Tail(s)[j] = s[j + 1]
    OBVIOUS
  <1>2. Ascending(Tail(s))
    BY <1>1 DEF Ascending
  <1>3. ASSUME NEW j \in DOMAIN Tail(s)
        PROVE  Tail(s)[j] \in Elements(s) /\ Head(s) < Tail(s)[j]
    BY <1>1 DEF Ascending, Elements
  <1>4. ASSUME NEW j \in DOMAIN s, s[j] # Head(s) PROVE s[j] \in Elements(Tail(s))
    <2>1. j - 1 \in DOMAIN Tail(s) /\ Tail(s)[j - 1] = s[j]
      BY <1>1, <1>4
    <2>2. QED
      BY <2>1 DEF Elements
  <1>5. \A k \in Elements(Tail(s)) : k \in Elements(s) /\ Head(s) < k
    BY <1>3 DEF Elements
  <1>6. Head(s) \in Nat /\ Elements(s) \subseteq Nat
    BY <1>1 DEF Elements
  <1>7. \A k \in Elements(s) : k # Head(s) => k \in Elements(Tail(s))
    BY <1>4 DEF Elements
  <1>8. Elements(Tail(s)) = Elements(s) \ {Head(s)}
    BY <1>5, <1>6, <1>7
  <1>9. QED
    BY <1>1, <1>2, <1>5, <1>8

-----------------------------------------------------------------------------
(* The invariant is inductive: one lemma per operation *)

\* What a push has to show about the counters: it counted what it gave up, and
\* gave up nothing real from behind a frame it kept.
LEMMA PushAccounted ==
  ASSUME IInv, NEW kind \in {"real", "deco"}, NEW kept \in Seq(Frames),
         PushFrame(kind, kept), Ascending(kept), Elements(kept) \subseteq Queued,
         dropped' = Cardinality(Lost'),
         \A k \in Queued \ Elements(kept), q \in Elements(kept) : sent[k] = "real" => k < q
  PROVE  Accounted'
  <1>1. /\ Lost' = Lost \cup {k \in Queued \ Elements(kept) : sent[k] = "real"}
        /\ Queued' = Elements(kept) \cup {Len(sent) + 1}
        /\ InHand => Stream!MissingUpTo(hand.frame - 1)' = Stream!MissingUpTo(hand.frame - 1)
    BY PushStep DEF IInv
  <1>2. UNCHANGED <<told, announced, thread, hand, InHand>>
    BY DEF PushFrame, InHand
  <1>3. Lost \subseteq Frames /\ Queued \subseteq Frames
    BY LastTypes DEF IInv, Lost
  <1>4. ASSUME NEW k \in Lost', NEW q \in Queued' PROVE k < q
    <2>1. CASE q = Len(sent) + 1
      <3>1. k \in 1 .. Len(sent) /\ Len(sent) \in Nat
        BY <1>1, <1>3 DEF Frames, IInv, TypeOK
      <3>2. QED
        BY <2>1, <3>1
    <2>2. CASE q \in Elements(kept)
      BY <1>1, <1>4, <2>2 DEF IInv, Accounted
    <2>3. QED
      BY <1>1, <2>1, <2>2
  <1>5. InHand' => announced' = Cardinality(Stream!MissingUpTo(hand.frame - 1)')
    BY <1>1, <1>2 DEF IInv, Accounted
  <1>6. QED
    BY <1>2, <1>4, <1>5 DEF IInv, Accounted

\* push: whatever it gives up to make room, the counters stay exact.
LEMMA PushInvariant ==
  ASSUME IInv, NEW kind \in {"real", "deco"}, Push(kind)
  PROVE  Ordered' /\ Accounted'
  <1>1. queue \in Seq(Frames) /\ queue \in Seq(Nat) /\ Ascending(queue) /\ Elements(queue) = Queued
    BY SeqMonotone DEF IInv, TypeOK, Ordered, Ascending, Elements, Queued, Frames
  <1>2. IsFiniteSet(Lost) /\ dropped = Cardinality(Lost)
    BY LostFinite DEF IInv, Accounted
  <1>3. CASE PushIntoRoom(kind)
    <2>1. PushFrame(kind, queue) /\ dropped' = dropped
      BY <1>3 DEF PushIntoRoom
    <2>2. Lost' = Lost
      BY <1>1, <2>1, PushStep DEF IInv
    <2>3. QED
      BY <1>1, <1>2, <2>1, <2>2, PushStep, PushAccounted DEF IInv
  <1>4. CASE PushDroppingDecoration(kind)
    <2>1. PICK i \in Decorative : PushFrame(kind, RemoveAt(queue, i))
      BY <1>4 DEF PushDroppingDecoration
    <2>2. dropped' = dropped /\ i \in DOMAIN queue /\ sent[queue[i]] # "real"
      BY <1>4 DEF PushDroppingDecoration, Decorative, is_decorative
    <2>3. PICK kept : kept = RemoveAt(queue, i)
      OBVIOUS
    <2>4. kept \in Seq(Frames) /\ Ascending(kept) /\ Elements(kept) = Queued \ {queue[i]}
      BY <1>1, <2>2, <2>3, RemoveAtType, RemoveAtAscending
    <2>5. \A k \in Queued \ Elements(kept) : sent[k] # "real"
      BY <2>2, <2>4
    <2>6. Lost' = Lost
      BY <2>1, <2>3, <2>4, <2>5, PushStep DEF IInv
    <2>7. QED
      BY <1>2, <2>1, <2>2, <2>3, <2>4, <2>5, <2>6, PushStep, PushAccounted DEF IInv
  <1>5. CASE PushDroppingOldest(kind)
    <2>1. PushFrame(kind, Tail(queue)) /\ dropped' = dropped + 1 /\ queue # <<>> /\ Decorative = {}
      BY <1>5, CapacityAssumption DEF PushDroppingOldest, Full
    <2>2. PICK kept : kept = Tail(queue)
      OBVIOUS
    <2>3. /\ kept \in Seq(Frames) /\ Ascending(kept)
          /\ Elements(kept) = Queued \ {Head(queue)}
          /\ \A k \in Elements(kept) : Head(queue) < k
      BY <1>1, <2>1, <2>2, TailAscending
    <2>4. Head(queue) \in Queued /\ sent[Head(queue)] = "real"
      <3>1. 1 \in DOMAIN queue /\ Head(queue) = queue[1]
        BY <1>1, <2>1
      <3>2. sent[queue[1]] \in {"real", "deco"}
        BY <1>1, <3>1 DEF IInv, TypeOK, Frames
      <3>3. QED
        BY <2>1, <3>1, <3>2 DEF Decorative, is_decorative, Queued
    <2>5. Lost' = Lost \cup {Head(queue)}
      BY <2>1, <2>2, <2>3, <2>4, PushStep DEF IInv
    <2>6. Head(queue) \notin Lost
      BY <2>4 DEF Lost
    <2>7. dropped' = Cardinality(Lost')
      BY <1>2, <2>1, <2>5, <2>6, FS_AddElement
    <2>8. QED
      BY <2>1, <2>2, <2>3, <2>7, PushStep, PushAccounted DEF IInv
  <1>6. QED
    BY <1>3, <1>4, <1>5 DEF Push

\* take: the frame taken is the oldest, and all the losses lie before it.
LEMMA TakeInvariant ==
  ASSUME IInv, Take
  PROVE  Ordered' /\ Accounted'
  <1>1. thread = "take" /\ UNCHANGED <<sent, seen, dropped, told>>
    BY DEF Take
  <1>2. UNCHANGED <<LastShown, Stream!Shown, Frames>> /\ ~InHand
    BY <1>1 DEF LastShown, Stream!Shown, Frames, InHand
  <1>3. CASE queue = <<>>
    <2>1. UNCHANGED <<queue, hand, announced>> /\ thread' = "exited"
      BY <1>3 DEF Take
    <2>2. UNCHANGED <<LastTaken, Queued, Lost>> /\ ~InHand'
      BY <1>1, <1>2, <2>1 DEF LastTaken, Queued, Lost, InHand
    <2>3. QED
      BY <1>1, <1>2, <2>1, <2>2 DEF IInv, Ordered, Accounted
  <1>4. CASE queue # <<>>
    <2>1. PICK h : h = Head(queue)
      OBVIOUS
    <2>2. /\ hand' = [lost |-> dropped - announced, frame |-> h]
          /\ queue' = Tail(queue) /\ announced' = dropped
          /\ thread' = IF dropped > announced THEN "warn" ELSE "deliver"
      BY <1>4, <2>1 DEF Take
    <2>3. InHand' /\ hand'.frame = h /\ hand'.lost = dropped - announced /\ LastTaken' = h
      BY <2>2 DEF InHand, LastTaken
    <2>4. /\ queue \in Seq(Nat) /\ Ascending(queue) /\ Elements(queue) = Queued
          /\ Elements(Tail(queue)) = Queued' /\ h \in Queued
      BY <1>4, <2>1, <2>2, SeqMonotone DEF IInv, TypeOK, Ordered, Ascending, Elements, Queued, Frames
    <2>5. /\ Ascending(queue') /\ Queued' = Queued \ {h}
          /\ \A q \in Queued' : h < q
      BY <1>4, <2>1, <2>2, <2>4, TailAscending
    <2>6. h \in Frames /\ LastShown < h
      BY <2>4, LastTypes DEF IInv, Frames
    <2>7. Ordered'
      BY <1>1, <1>2, <2>3, <2>5, <2>6 DEF IInv, Ordered, Ascending, Queued
    <2>8. Lost' = Lost
      BY <1>1, <1>2, <2>3, <2>4, <2>5 DEF Lost
    <2>9. Lost = Stream!MissingUpTo(h - 1)
      <3>1. \A k \in Lost : k \in Frames /\ k < h
        BY <2>4 DEF IInv, Accounted, Lost
      <3>2. ASSUME NEW k \in 1 .. h - 1 PROVE k \in Frames /\ k \notin Queued
        <4>1. k \in Nat /\ h \in Nat /\ k < h
          BY <2>6 DEF Frames
        <4>2. k \in Frames
          BY <2>6 DEF IInv, TypeOK, Frames
        <4>3. \A q \in Queued : q = h \/ h < q
          BY <2>5
        <4>4. k # h /\ ~(h < k)
          BY <4>1
        <4>5. QED
          BY <4>2, <4>3, <4>4, Zenon
      <3>3. \A k \in Frames : k < h => k \in 1 .. h - 1
        BY <2>6 DEF Frames
      <3>4. QED
        BY <1>2, <3>1, <3>2, <3>3 DEF Lost, Stream!MissingUpTo
    <2>10. Stream!MissingUpTo(h - 1)' = Stream!MissingUpTo(h - 1)
      BY <1>1, <1>2, <2>1 DEF Stream!MissingUpTo
    <2>11. (announced = Cardinality(Stream!MissingUpTo(hand.frame - 1)))'
      <3>1. announced' = Cardinality(Stream!MissingUpTo(h - 1))
        BY <2>2, <2>9 DEF IInv, Accounted
      <3>2. (announced = Cardinality(Stream!MissingUpTo(h - 1)))'
        BY <2>10, <3>1
      <3>3. QED
        BY <2>3, <3>2
    <2>12. told' = announced' - (IF thread' = "warn" THEN hand'.lost ELSE 0)
      BY <1>1, <2>2, <2>3 DEF IInv, TypeOK, Accounted
    <2>13. thread' = "warn" => hand'.lost > 0
      BY <2>2, <2>3 DEF IInv, TypeOK
    <2>14. \A k \in Lost', q \in Queued' : k < q
      BY <2>5, <2>8 DEF IInv, Accounted
    <2>15. dropped' = Cardinality(Lost')
      BY <1>1, <2>8 DEF IInv, Accounted
    <2>16. QED
      BY <2>7, <2>11, <2>12, <2>13, <2>14, <2>15 DEF Accounted
  <1>5. QED
    BY <1>3, <1>4

\* deliver: the frame in hand becomes the last one shown.
LEMMA DeliverFrameInvariant ==
  ASSUME IInv, DeliverFrame
  PROVE  Ordered' /\ Accounted'
  <1>1. PICK h : h = hand.frame
    OBVIOUS
  <1>2. /\ thread = "deliver" /\ InHand /\ ~InHand' /\ thread' = "upgrade"
        /\ seen' = Append(seen, h)
        /\ UNCHANGED <<sent, queue, dropped, announced, hand, told>>
    BY <1>1 DEF DeliverFrame, InHand
  <1>3. h \in Frames /\ seen \in Seq(Frames) /\ LastShown < h /\ LastTaken = h /\ Frames \subseteq Nat
    BY <1>1, <1>2 DEF IInv, TypeOK, Ordered, LastTaken, InHand, Frames
  <1>4. /\ LastShown' = h /\ LastTaken' = h
        /\ \A i \in DOMAIN seen' : seen'[i] \in Stream!Shown \cup {h}
        /\ Stream!Shown' = Stream!Shown \cup {h}
    <2>1. /\ seen' \in Seq(Frames) /\ Len(seen') = Len(seen) + 1 /\ seen'[Len(seen) + 1] = h
          /\ \A i \in 1 .. Len(seen) : seen'[i] = seen[i]
      BY <1>2, <1>3
    <2>2. seen' # <<>> /\ LastShown' = h
      BY <1>2, <1>3, <2>1 DEF LastShown
    <2>3. \A i \in DOMAIN seen' : seen'[i] \in Stream!Shown \cup {h}
      BY <1>3, <2>1 DEF Stream!Shown
    <2>4. \A i \in DOMAIN seen : i \in DOMAIN seen' /\ seen'[i] = seen[i]
      BY <1>3, <2>1
    <2>5. Len(seen) + 1 \in DOMAIN seen' /\ seen'[Len(seen) + 1] = h
      BY <1>3, <2>1
    <2>6. Stream!Shown' = Stream!Shown \cup {h}
      BY <2>3, <2>4, <2>5 DEF Stream!Shown
    <2>7. QED
      BY <1>2, <2>2, <2>3, <2>6 DEF LastTaken
  <1>5. UNCHANGED <<Queued, Frames>>
    BY <1>2 DEF Queued, Frames
  <1>6. Ordered'
    <2>1. \A i \in DOMAIN seen' : seen'[i] <= LastShown'
      BY <1>3, <1>4, LastTypes DEF IInv, Frames
    <2>2. QED
      BY <1>2, <1>3, <1>4, <2>1 DEF IInv, Ordered
  <1>7. Lost' = Lost
    BY <1>1, <1>2, <1>4, <1>5 DEF Lost
  <1>8. QED
    BY <1>2, <1>5, <1>6, <1>7 DEF IInv, Accounted

\* The steps that move no frame.
LEMMA QuietStepInvariant ==
  ASSUME IInv, Upgrade \/ DeliverWarning \/ Release \/ UNCHANGED vars
  PROVE  Ordered' /\ Accounted'
  <1>1. UNCHANGED <<sent, queue, dropped, announced, hand, seen>> /\ InHand' = InHand
    BY DEF Upgrade, DeliverWarning, Release, vars, slots, InHand
  <1>2. UNCHANGED <<LastShown, LastTaken, Stream!Shown, Queued, Frames>>
    BY <1>1 DEF LastShown, LastTaken, Stream!Shown, Queued, Frames
  <1>3. Lost' = Lost
    BY <1>1, <1>2 DEF Lost
  <1>4. InHand => Stream!MissingUpTo(hand.frame - 1)' = Stream!MissingUpTo(hand.frame - 1)
    BY <1>1, <1>2 DEF Stream!MissingUpTo
  <1>5. Ordered'
    BY <1>1, <1>2 DEF IInv, Ordered
  <1>6. told' = announced' - (IF thread' = "warn" THEN hand'.lost ELSE 0)
    BY <1>1 DEF IInv, TypeOK, Accounted, Upgrade, DeliverWarning, Release, vars, slots
  <1>7. thread' = "warn" => hand'.lost > 0
    BY DEF IInv, Accounted, Upgrade, DeliverWarning, Release, vars, slots
  <1>8. QED
    BY <1>1, <1>2, <1>3, <1>4, <1>5, <1>6, <1>7 DEF IInv, Accounted

\* Every reachable state satisfies the inductive invariant: the queue is ordered
\* and `dropped` counts exactly the real events push gave up.
THEOREM InvariantHolds == Spec => []IInv
  <1>1. Init => Ordered /\ Accounted
    <2> SUFFICES ASSUME Init PROVE Ordered /\ Accounted
      OBVIOUS
    <2>1. DOMAIN queue = {} /\ DOMAIN seen = {} /\ Len(sent) = 0 /\ ~InHand /\ thread # "warn"
      BY DEF Init, InHand
    <2>2. Lost = {} /\ Queued = {}
      BY <2>1 DEF Lost, Frames, Queued
    <2>3. Ordered
      BY <2>1 DEF Ordered
    <2>4. QED
      BY <2>1, <2>2, <2>3, FS_EmptySet DEF Accounted, Init
  <1>2. IInv /\ TypeOK' /\ [Next]_vars => IInv'
    BY PushInvariant, TakeInvariant, DeliverFrameInvariant, QuietStepInvariant
    DEF Next, Forward, IInv
  <1>3. QED
    BY <1>1, <1>2, TypeCorrect, PTL DEF Spec, IInv

-----------------------------------------------------------------------------
(* What the queue promises *)

\* The instance counts with the same Cardinality.
LEMMA SameCardinality == \A S : Stream!Cardinality(S) = Cardinality(S)
  BY DEF Stream!Cardinality, Cardinality

\* The queue implements the abstract stream for every capacity: frames are shown
\* in order, and the losses announced before a frame are exactly the real events
\* missing in front of it.
THEOREM StreamImplemented == Spec => ReportsEveryLoss
  <1>1. Init => Stream!Init
    BY DEF Init, Stream!Init
  <1>2. IInv /\ [Next]_vars => [Stream!Next]_<<sent, seen, told>>
    <2> SUFFICES ASSUME IInv, [Next]_vars PROVE [Stream!Next]_<<sent, seen, told>>
      OBVIOUS
    <2>1. ASSUME NEW kind \in {"real", "deco"}, Push(kind) PROVE Stream!Send
      BY <2>1 DEF Push, PushIntoRoom, PushDroppingDecoration, PushDroppingOldest, PushFrame,
                  Stream!Send, Stream!Kinds
    <2>2. CASE DeliverWarning
      <3>1. PICK n : n = hand.frame - 1
        OBVIOUS
      <3>2. thread = "warn" /\ InHand /\ told' = told + hand.lost /\ UNCHANGED <<sent, seen>>
        BY <2>2 DEF DeliverWarning, InHand
      <3>3. n \in Nat /\ n <= Len(sent) /\ Len(sent) \in Nat /\ told \in Nat /\ hand.lost \in Nat \ {0}
        BY <3>1, <3>2 DEF IInv, TypeOK, Accounted, Frames, InHand
      <3>4. told' = Cardinality(Stream!MissingUpTo(n))
        BY <3>1, <3>2, <3>3 DEF IInv, TypeOK, Accounted
      <3>5. Stream!MissingUpTo(n) \subseteq Stream!MissingUpTo(Len(sent))
        BY <3>3 DEF Stream!MissingUpTo
      <3>6. IsFiniteSet(Stream!MissingUpTo(n)) /\ IsFiniteSet(Stream!MissingUpTo(Len(sent)))
        BY <3>3, LostFinite DEF IInv
      <3>7. /\ Cardinality(Stream!MissingUpTo(n)) \in Nat
            /\ Cardinality(Stream!MissingUpTo(Len(sent))) \in Nat
            /\ Cardinality(Stream!MissingUpTo(n)) <= Cardinality(Stream!MissingUpTo(Len(sent)))
        BY <3>5, <3>6, FS_Subset, FS_CardinalityType
      <3>8. Stream!Report
        <4>1. PICK c : c = Cardinality(Stream!MissingUpTo(n))
          OBVIOUS
        <4>2. PICK m : m = Cardinality(Stream!MissingUpTo(Len(sent)))
          OBVIOUS
        <4>3. told' \in told + 1 .. m
          BY <3>2, <3>3, <3>4, <3>7, <4>1, <4>2
        <4>4. QED
          BY <3>2, <4>2, <4>3, SameCardinality DEF Stream!Report
      <3>9. QED
        BY <3>8 DEF Stream!Next
    <2>3. CASE DeliverFrame
      <3>1. thread = "deliver" /\ InHand /\ seen' = Append(seen, hand.frame) /\ UNCHANGED <<sent, told>>
        BY <2>3 DEF DeliverFrame, InHand
      <3>2. told = Cardinality(Stream!MissingUpTo(hand.frame - 1))
        BY <3>1 DEF IInv, TypeOK, Accounted
      <3>3. hand.frame \in Stream!LastShown + 1 .. Len(sent)
        BY <3>1, LastTypes DEF IInv, TypeOK, Ordered, Frames, LastShown, Stream!LastShown
      <3>4. QED
        <4>1. PICK n : n = hand.frame
          OBVIOUS
        <4>2. /\ told = Cardinality(Stream!MissingUpTo(n - 1))
              /\ seen' = Append(seen, n) /\ n \in Stream!LastShown + 1 .. Len(sent)
          BY <3>1, <3>2, <3>3, <4>1, Zenon
        <4>3. Stream!Show
          BY <3>1, <4>2, SameCardinality DEF Stream!Show
        <4>4. QED
          BY <4>3 DEF Stream!Next
    <2>4. CASE Upgrade \/ Take \/ Release \/ UNCHANGED vars
      BY <2>4 DEF Upgrade, Take, Release, vars, slots
    <2>5. QED
      BY <2>1, <2>2, <2>3, <2>4 DEF Next, Forward, Stream!Next
  <1>3. QED
    BY <1>1, <1>2, InvariantHolds, PTL DEF Spec, ReportsEveryLoss, Stream!Spec

\* A closed queue has no owner left but, at most, the thread that closed it.
ClosedUnowned == closed => ~owned

\* The forwarding thread never waits on a closed queue, whatever the pushes do.
THEOREM NeverWaitsOnClosed == Spec => []NoWaitOnClosed
  <1>1. Init => ClosedUnowned /\ NoWaitOnClosed
    BY DEF Init, ClosedUnowned, NoWaitOnClosed
  <1>2. ClosedUnowned /\ NoWaitOnClosed /\ [Next]_vars => (ClosedUnowned /\ NoWaitOnClosed)'
    <2> SUFFICES ASSUME ClosedUnowned, NoWaitOnClosed, [Next]_vars
                 PROVE  (ClosedUnowned /\ NoWaitOnClosed)'
      OBVIOUS
    <2> USE DEF ClosedUnowned, NoWaitOnClosed
    <2>1. ASSUME NEW kind \in {"real", "deco"}, Push(kind)
          PROVE  UNCHANGED <<closed, owned, thread>>
      BY <2>1 DEF Push, PushIntoRoom, PushDroppingDecoration, PushDroppingOldest, PushFrame
    <2>2. CASE Upgrade
      BY <2>2 DEF Upgrade, slots
    <2>3. CASE Take
      BY <2>3 DEF Take
    <2>4. CASE DeliverWarning
      BY <2>4 DEF DeliverWarning, slots
    <2>5. CASE DeliverFrame
      BY <2>5 DEF DeliverFrame
    <2>6. CASE Release
      BY <2>6 DEF Release
    <2>7. CASE UNCHANGED vars
      BY <2>7 DEF vars, slots
    <2>8. QED
      BY <2>1, <2>2, <2>3, <2>4, <2>5, <2>6, <2>7 DEF Next, Forward
  <1>3. QED
    BY <1>1, <1>2, PTL DEF Spec

=============================================================================

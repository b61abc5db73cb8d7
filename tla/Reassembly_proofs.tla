--------------------------- MODULE Reassembly_proofs ---------------------------
(* Theorems about one stream buffer, for any size of the sequence space, any   *)
(* limits and policy, and any segments; those that compare sequence numbers    *)
(* of different segments assume that the stream fits half of the space.        *)
EXTENDS Reassembly, FiniteSetTheorems, SequenceTheorems, WellFoundedInduction, TLAPS

(***************************************************************************)
(* The inductive invariant, stated of a stream s, of the segments f fed to *)
(* it and of the number where it begins, so that it can be followed        *)
(* through the calls one segment makes.                                    *)
(***************************************************************************)

Streams ==
  [next_seq : SeqNum \cup {NoSeq}, pending : SUBSET Pieces, ready : Nat, pending_bytes : Nat,
   overflow : BOOLEAN, fin_seen : BOOLEAN, rst_seen : BOOLEAN,
   verdict : {"none", "InOrder", "Buffered", "PartialOverlap", "Retransmission"},
   delivered : Seq(Pieces), evicted : SUBSET Pieces]

\* Piece p is a part of the segment it names.
CutFrom(p, f) ==
  /\ p \in Pieces /\ p.feed \in 1 .. Len(f)
  /\ (f[p.feed].seq + p.off) % SeqSpace = p.seq
  /\ p.off + p.len <= f[p.feed].len

AllCut(s, f) ==
  /\ \A p \in s.pending : CutFrom(p, f)
  /\ \A i \in 1 .. Len(s.delivered) : CutFrom(s.delivered[i], f)

\* The pieces d follow each other from `begin` to `end`.
Run(d, begin, end) ==
  /\ d = <<>> => end = begin
  /\ d # <<>> =>
       /\ d[1].seq = begin
       /\ \A i \in 1 .. Len(d) :
            (d[i].seq + d[i].len) % SeqSpace = IF i = Len(d) THEN end ELSE d[i + 1].seq

StreamInv(s, f, begin) ==
  /\ s \in Streams /\ AllCut(s, f)
  /\ s.next_seq = NoSeq => s.delivered = <<>>
  /\ s.next_seq # NoSeq => Run(s.delivered, begin, s.next_seq)

StartsStream(seg) == seg.len > 0 \/ "SYN" \in seg.flags

ReassemblyInv ==
  /\ feeds \in Seq(Inputs) /\ Len(feeds) <= MaxFeeds
  /\ stream.next_seq = NoSeq <=> Starters = {}
  /\ StreamInv(stream, feeds, Start)

-----------------------------------------------------------------------------
(* Sequence arithmetic                                                      *)

\* A number has one remainder, and it is in range.
LEMMA ModRange ==
  ASSUME NEW n \in Nat \ {0}, NEW a \in Int
  PROVE  a % n \in 0 .. n - 1 /\ \E q \in Int : a = (n * q) + (a % n)
  <1>1. a \div n \in Int /\ a % n \in 0 .. n - 1
    OBVIOUS
  <1>2. a = (n * (a \div n)) + (a % n)
    OBVIOUS
  <1> QED BY <1>1, <1>2

\* ... and a number that is a multiple away has the same one.
LEMMA ModUnique ==
  ASSUME NEW n \in Nat \ {0}, NEW q \in Int, NEW r \in 0 .. n - 1
  PROVE  ((n * q) + r) % n = r
  OBVIOUS

\* Equal remainders stay equal when the same number is added.
LEMMA ModAdd ==
  ASSUME NEW n \in Nat \ {0}, NEW a \in Int, NEW b \in Int, NEW c \in Int, a % n = b % n
  PROVE  (a + c) % n = (b + c) % n
  <1>1. PICK q1 \in Int : a = (n * q1) + (a % n)
    BY ModRange
  <1>2. PICK q2 \in Int : b = (n * q2) + (b % n)
    BY ModRange
  <1>3. PICK q3 \in Int : b + c = (n * q3) + ((b + c) % n)
    <2>1. b + c \in Int
      OBVIOUS
    <2> HIDE <1>1, <1>2
    <2> QED BY <2>1, ModRange
  <1>4. a + c = (n * (q3 + q1 - q2)) + ((b + c) % n)
    <2>1. n * (q3 + q1 - q2) = (n * q3) + (n * q1) - (n * q2)
      OBVIOUS
    <2>2. a % n \in Int /\ (b + c) % n \in Int /\ n * q1 \in Int /\ n * q2 \in Int /\ n * q3 \in Int
      BY ModRange
    <2> QED BY <1>1, <1>2, <1>3, <2>1, <2>2
  <1>5. (b + c) % n \in 0 .. n - 1 /\ q3 + q1 - q2 \in Int
    BY ModRange
  <1> QED BY <1>4, <1>5, ModUnique

\* The sequence space and its half.
LEMMA SpaceType ==
  SeqSpace \in Nat \ {0} /\ Half \in Nat \ {0} /\ SeqSpace = 2 * Half /\ NoSeq \notin SeqNum
  BY StreamAssumption DEF Half, SeqNum, NoSeq

\* Going the distance from a to b ends at b.
LEMMA DistanceType ==
  ASSUME NEW a \in SeqNum, NEW b \in SeqNum
  PROVE  /\ Distance(a, b) \in -Half .. Half - 1
         /\ (a + Distance(a, b)) % SeqSpace = b
  <1>0. a \in Int /\ b \in 0 .. SeqSpace - 1 /\ b \in Int
    BY SpaceType DEF SeqNum
  <1> DEFINE x == b - a + Half
  <1>1. x \in Int /\ x % SeqSpace \in 0 .. SeqSpace - 1
    BY <1>0, SpaceType, ModRange
  <1>2. PICK q \in Int : x = (SeqSpace * q) + (x % SeqSpace)
    BY <1>1, SpaceType, ModRange
  <1>3. a + Distance(a, b) = (SeqSpace * (0 - q)) + b
    <2> DEFINE m == x % SeqSpace
               k == SeqSpace * q
    <2>1. m \in Int /\ k \in Int /\ SeqSpace * (0 - q) = 0 - k /\ Half \in Int
      BY <1>1, SpaceType
    <2>2. Distance(a, b) = m - Half
      BY DEF Distance
    <2>3. b - a + Half = k + m
      BY <1>2
    <2> HIDE DEF m, k
    <2> QED BY <1>0, <2>1, <2>2, <2>3
  <1>4. (a + Distance(a, b)) % SeqSpace = b
    <2>1. 0 - q \in Int
      OBVIOUS
    <2>2. ((SeqSpace * (0 - q)) + b) % SeqSpace = b
      BY <1>0, <2>1, SpaceType, ModUnique
    <2> QED BY <1>3, <2>2
  <1>5. Distance(a, b) \in -Half .. Half - 1
    BY <1>1, SpaceType DEF Distance
  <1> QED BY <1>4, <1>5

-----------------------------------------------------------------------------
(* Counting through the loops                                               *)

\* What holds at 0 and is passed on by each step holds up to the end.
LEMMA CountUp ==
  ASSUME NEW n \in Nat, NEW S, 0 \in S, \A k \in 0 .. n - 1 : k \in S => k + 1 \in S
  PROVE  0 .. n \subseteq S
  <1> DEFINE T == {k \in 0 .. n : k \notin S}
  <1> SUFFICES ASSUME T # {} PROVE FALSE
    OBVIOUS
  <1>1. T \subseteq Nat
    OBVIOUS
  <1>2. PICK m \in T : \A k \in T : ~ (<<k, m>> \in OpToRel(<, Nat))
    <2> HIDE DEF T
    <2> QED BY <1>1, NatLessThanWellFounded, WFMin
  <1>3. m \in Nat /\ \A k \in T : k \in Nat /\ ~ (k < m)
    BY <1>1, <1>2 DEF OpToRel
  <1>4. m # 0 /\ m - 1 \in 0 .. n - 1 /\ m - 1 \notin T
    BY <1>3
  <1> QED BY <1>3, <1>4

\* A nonempty set of numbers has a least one.
LEMMA LeastNumber ==
  ASSUME NEW T \in SUBSET Nat, T # {}
  PROVE  \E m \in T : \A k \in T : m <= k
  <1>1. PICK m \in T : \A k \in T : ~ (<<k, m>> \in OpToRel(<, Nat))
    BY NatLessThanWellFounded, WFMin
  <1>2. m \in Nat /\ \A k \in T : k \in Nat /\ ~ (k < m)
    BY <1>1 DEF OpToRel
  <1> QED BY <1>2

\* There are finitely many pieces.
LEMMA PiecesFinite ==
  IsFiniteSet(Pieces)
  <1> DEFINE L == 1 .. Half - 1
             F == 1 .. MaxFeeds
             O == 0 .. Half - 1
             pair == [p \in Pieces |-> <<<<p.seq, p.len>>, <<p.feed, p.off>>>>]
  <1>1. IsFiniteSet(SeqNum)
    BY FS_Interval, SpaceType DEF SeqNum
  <1>2. IsFiniteSet(L)
    BY FS_Interval, SpaceType
  <1>3. IsFiniteSet(F)
    BY FS_Interval, InputsAssumption
  <1>4. IsFiniteSet(O)
    BY FS_Interval, SpaceType
  <1>5. pair \in Injection(Pieces, (SeqNum \X L) \X (F \X O))
    BY DEF Injection, IsInjective, Pieces
  <1> HIDE DEF L, F, O, pair
  <1>6. IsFiniteSet(SeqNum \X L) /\ IsFiniteSet(F \X O)
    BY <1>1, <1>2, <1>3, <1>4, FS_Product
  <1>7. IsFiniteSet((SeqNum \X L) \X (F \X O))
    BY <1>6, FS_Product
  <1> QED BY <1>5, <1>7, FS_Injection

\* ... so every set of them is finite.
LEMMA PendingFinite ==
  ASSUME NEW P \in SUBSET Pieces
  PROVE  IsFiniteSet(P) /\ Cardinality(P) \in Nat
  <1>1. IsFiniteSet(P)
    BY PiecesFinite, FS_Subset
  <1> QED BY <1>1, FS_CardinalityType

\* The positions of pieces are finitely many.
LEMMA BytesType ==
  ASSUME NEW P \in SUBSET Pieces, NEW ref \in SeqNum
  PROVE  Bytes(P, ref) \in Nat
  <1> DEFINE R == -Half .. 2 * Half
  <1>1. Positions(P, ref) \in SUBSET R
    <2> SUFFICES ASSUME NEW p \in P PROVE Span(p, ref) \subseteq R
      BY DEF Positions
    <2>1. p.seq \in SeqNum /\ p.len \in 1 .. Half - 1
      BY DEF Pieces
    <2>2. Distance(ref, p.seq) \in -Half .. Half - 1
      BY <2>1, DistanceType
    <2> QED BY <2>1, <2>2, SpaceType DEF Span
  <1>2. IsFiniteSet(R)
    <2>1. -Half \in Int /\ 2 * Half \in Int
      BY SpaceType
    <2> QED BY <2>1, FS_Interval
  <1> HIDE DEF R
  <1>3. IsFiniteSet(Positions(P, ref))
    BY <1>1, <1>2, FS_Subset
  <1> QED BY <1>3, FS_CardinalityType DEF Bytes

-----------------------------------------------------------------------------
(* Cutting pieces                                                           *)

\* What is left of a piece is cut from the segment the piece was cut from.
LEMMA SubtractCuts ==
  ASSUME NEW f \in Seq(Inputs), NEW p, CutFrom(p, f), NEW ref \in SeqNum, NEW cut,
         NEW q \in Subtract(p, ref, cut)
  PROVE  CutFrom(q, f)
  <1> DEFINE d == Distance(ref, p.seq)
  <1>1. p \in Pieces /\ p.seq \in SeqNum /\ p.len \in 1 .. Half - 1 /\ p.off \in 0 .. Half - 1
        /\ p.feed \in 1 .. MaxFeeds
    BY DEF CutFrom, Pieces
  <1>2. d \in Int /\ (ref + d) % SeqSpace = p.seq
    BY <1>1, DistanceType, SpaceType
  <1>3. PICK a \in Span(p, ref), b \in Span(p, ref) :
          a <= b /\ q = [p EXCEPT !.seq = (ref + a) % SeqSpace, !.len = b - a + 1, !.off = p.off + a - d]
    <2> DEFINE left == Span(p, ref) \ cut
    <2>1. PICK r \in left \X left :
            r[1] <= r[2] /\ q = [p EXCEPT !.seq = (ref + r[1]) % SeqSpace, !.len = r[2] - r[1] + 1,
                                          !.off = p.off + r[1] - Distance(ref, p.seq)]
      BY DEF Subtract
    <2>2. r[1] \in Span(p, ref) /\ r[2] \in Span(p, ref)
      BY <2>1
    <2> QED BY <2>1, <2>2
  <1>4. a \in d .. d + p.len - 1 /\ b \in d .. d + p.len - 1
    BY <1>3 DEF Span
  <1> HIDE DEF d
  <1>5. a \in Int /\ b \in Int /\ d <= a /\ a <= b /\ b <= d + p.len - 1
    BY <1>1, <1>2, <1>3, <1>4
  <1>6. /\ q.seq = (ref + a) % SeqSpace /\ q.len = b - a + 1 /\ q.off = p.off + a - d /\ q.feed = p.feed
        /\ q = [seq |-> q.seq, len |-> q.len, feed |-> q.feed, off |-> q.off]
    BY <1>1, <1>3 DEF Pieces
  <1>7. p.feed \in 1 .. Len(f) /\ (f[p.feed].seq + p.off) % SeqSpace = p.seq
        /\ p.off + p.len <= f[p.feed].len /\ f[p.feed] \in Inputs
    BY DEF CutFrom
  <1>8. f[p.feed].seq \in Int /\ f[p.feed].seq \in SeqNum /\ f[p.feed].len \in 0 .. Half - 1
    BY SMTT(30), <1>7, InputsAssumption, SpaceType DEF SeqNum
  <1>9. q.len \in 1 .. Half - 1 /\ q.off \in 0 .. Half - 1 /\ q.off + q.len <= f[p.feed].len
    <2> DEFINE o == p.off
               n == p.len
               m == f[p.feed].len
    <2>1. o \in Nat /\ n \in Nat /\ m \in Nat /\ o + n <= m /\ m <= Half - 1 /\ a <= b /\ d <= a
          /\ b <= d + n - 1 /\ Half \in Nat
      BY <1>1, <1>5, <1>7, <1>8, SpaceType
    <2>2. q.len = b - a + 1 /\ q.off = o + a - d
      BY <1>6
    <2> HIDE DEF o, n, m
    <2>3. /\ b - a + 1 \in 1 .. Half - 1 /\ o + a - d \in 0 .. Half - 1
          /\ (o + a - d) + (b - a + 1) <= m
      BY <2>1, <1>2, <1>5
    <2> QED BY <2>2, <2>3 DEF m
  <1>10. q.seq \in SeqNum
    <2>1. ref + a \in Int
      BY <1>5, SpaceType DEF SeqNum
    <2> QED BY <2>1, <1>6, ModRange, SpaceType DEF SeqNum
  <1>11. (f[p.feed].seq + q.off) % SeqSpace = q.seq
    <2> DEFINE x == f[p.feed].seq + p.off
               y == ref + d
               c == a - d
    <2>1. x \in Int /\ y \in Int /\ c \in Int
      <3>1. p.off \in Int /\ ref \in Int /\ f[p.feed].seq \in Int
        BY <1>1, <1>8, SpaceType DEF SeqNum
      <3> QED BY <3>1, <1>2, <1>5
    <2>2. x % SeqSpace = y % SeqSpace
      BY <1>2, <1>7
    <2>3. f[p.feed].seq + q.off = x + c /\ ref + a = y + c
      <3> DEFINE o == p.off
                 e == f[p.feed].seq
      <3>1. o \in Int /\ ref \in Int /\ e \in Int /\ q.off = o + a - d /\ x = e + o
        BY <1>1, <1>6, <1>8, SpaceType DEF SeqNum
      <3> HIDE DEF o, e, x
      <3>2. e + (o + a - d) = x + c /\ ref + a = y + c
        BY <3>1, <1>2, <1>5
      <3> QED BY <3>1, <3>2 DEF e
    <2> HIDE DEF x, y, c
    <2>4. (x + c) % SeqSpace = (y + c) % SeqSpace
      BY <2>1, <2>2, ModAdd, SpaceType
    <2> QED BY <2>3, <2>4, <1>6
  <1>12. q \in Pieces
    BY <1>1, <1>6, <1>9, <1>10 DEF Pieces
  <1> QED BY <1>6, <1>7, <1>9, <1>11, <1>12 DEF CutFrom

\* So is what insert_pending buffers, whichever copy wins.
LEMMA InsertCuts ==
  ASSUME NEW f \in Seq(Inputs), NEW P \in SUBSET Pieces, \A q \in P : CutFrom(q, f),
         NEW p, CutFrom(p, f), NEW ref \in SeqNum
  PROVE  LET ins == InsertPending(P, ref, p)
         IN  /\ ins[1] \subseteq Pieces /\ ins[2] \in Nat
             /\ \A q \in ins[1] : CutFrom(q, f)
  <1> DEFINE new == Span(p, ref)
             kept == Subtract(p, ref, Positions(P, ref))
             others == UNION {Subtract(q, ref, new) : q \in P}
  <1>1. \A q \in kept : CutFrom(q, f)
    BY SubtractCuts
  <1>2. \A q \in others : CutFrom(q, f)
    BY SubtractCuts
  <1>3. \A q : CutFrom(q, f) => q \in Pieces
    BY DEF CutFrom
  <1>4. p.len \in Nat
    BY <1>3 DEF Pieces
  <1>5. Bytes(kept, ref) \in Nat
    <2> HIDE DEF kept
    <2>1. kept \in SUBSET Pieces
      BY <1>1, <1>3
    <2> QED BY <2>1, BytesType
  <1>6. CASE Policy = "FirstWins"
    <2>1. InsertPending(P, ref, p) = <<P \cup kept, Bytes(kept, ref)>>
      BY <1>6 DEF InsertPending
    <2> HIDE DEF kept
    <2> QED BY <1>1, <1>3, <1>5, <2>1
  <1>7. CASE Policy # "FirstWins"
    <2>1. InsertPending(P, ref, p) = <<others \cup {p}, p.len>>
      BY <1>7 DEF InsertPending
    <2> HIDE DEF others, new
    <2> QED BY <1>2, <1>3, <1>4, <2>1
  <1> QED BY <1>6, <1>7

-----------------------------------------------------------------------------
(* The loops                                                                *)

\* Of a nonempty set of pieces one is in front.
LEMMA FrontPieceType ==
  ASSUME NEW P \in SUBSET Pieces, P # {}, NEW ref \in SeqNum
  PROVE  FrontPiece(P, ref) \in P
  <1> DEFINE D(p) == Distance(ref, p.seq) + Half
             T == {D(p) : p \in P}
  <1>1. \A p \in P : Distance(ref, p.seq) \in Int /\ D(p) \in Nat
    <2> TAKE p \in P
    <2>1. p.seq \in SeqNum
      BY DEF Pieces
    <2>2. Distance(ref, p.seq) \in -Half .. Half - 1
      BY <2>1, DistanceType
    <2> QED BY <2>2, SpaceType
  <1>2. PICK m \in T : \A k \in T : m <= k
    <2>1. T \in SUBSET Nat /\ T # {}
      BY <1>1
    <2> HIDE DEF T
    <2> QED BY <2>1, LeastNumber
  <1>3. PICK p \in P : m = D(p)
    BY <1>2
  <1>4. \A q \in P : D(p) <= D(q)
    BY <1>2, <1>3
  <1>5. \A q \in P : Distance(ref, p.seq) <= Distance(ref, q.seq)
    BY <1>1, <1>4, SpaceType
  <1> QED BY <1>5 DEF FrontPiece

\* Dropping a piece keeps the invariant of a stream.
LEMMA DropInv ==
  ASSUME NEW f, NEW begin, NEW s, StreamInv(s, f, begin), NEW p \in s.pending,
         NEW t, t = [s EXCEPT !.pending = @ \ {p}, !.pending_bytes = SatSub(@, p.len),
                              !.evicted = @ \cup {p}]
  PROVE  StreamInv(t, f, begin)
  <1>1. s \in Streams /\ p \in Pieces /\ p.len \in Nat /\ s.pending_bytes \in Nat
    BY DEF StreamInv, Streams, Pieces
  <1>2. SatSub(s.pending_bytes, p.len) \in Nat
    BY <1>1 DEF SatSub
  <1>3. t \in Streams
    BY <1>1, <1>2 DEF Streams
  <1>4. /\ t.pending = s.pending \ {p} /\ t.delivered = s.delivered /\ t.next_seq = s.next_seq
    BY <1>1 DEF Streams
  <1> QED BY <1>3, <1>4 DEF StreamInv, AllCut

\* One round of enforce_budget.
Dropped(t, ref) ==
  IF t.pending = {} \/ (/\ t.pending_bytes + t.ready <= MaxStreamBuffer
                        /\ Cardinality(t.pending) <= MaxSegments)
  THEN t
  ELSE [t EXCEPT !.pending = @ \ {FrontPiece(t.pending, ref)},
                 !.pending_bytes = SatSub(@, FrontPiece(t.pending, ref).len),
                 !.evicted = @ \cup {FrontPiece(t.pending, ref)}]

\* enforce_budget is so many rounds.
LEMMA EnforceRounds ==
  ASSUME NEW s, NEW ref, Cardinality(s.pending) \in Nat
  PROVE  \E g : /\ g[0] = s
                /\ \A n \in 1 .. Cardinality(s.pending) : g[n] = Dropped(g[n - 1], ref)
                /\ EnforceBudget(s, ref) = g[Cardinality(s.pending)]
  <1> DEFINE N == Cardinality(s.pending)
             G(k, g) == g = [n \in 0 .. k |-> IF n = 0 THEN s ELSE Dropped(g[n - 1], ref)]
             S == {k \in 0 .. N : \E g : G(k, g)}
  <1>1. 0 \in S
    <2> DEFINE g0 == [n \in 0 .. 0 |-> s]
    <2>1. g0 = [n \in 0 .. 0 |-> IF n = 0 THEN s ELSE Dropped(g0[n - 1], ref)]
      OBVIOUS
    <2>2. G(0, g0)
      BY <2>1
    <2> HIDE DEF G
    <2> QED BY <2>2
  <1>2. ASSUME NEW n \in 0 .. N - 1, n \in S PROVE n + 1 \in S
    <2>1. PICK g : G(n, g)
      BY <1>2
    <2> DEFINE h == [i \in 0 .. n + 1 |-> IF i = n + 1 THEN Dropped(g[n], ref) ELSE g[i]]
    <2>2. \A i \in 0 .. n : g[i] = IF i = 0 THEN s ELSE Dropped(g[i - 1], ref)
      BY <2>1
    <2>3. \A i \in 0 .. n + 1 : h[i] = IF i = 0 THEN s ELSE Dropped(h[i - 1], ref)
      BY <2>2
    <2>4. h = [i \in 0 .. n + 1 |-> IF i = 0 THEN s ELSE Dropped(h[i - 1], ref)]
      BY <2>3
    <2>5. G(n + 1, h)
      BY <2>4
    <2>6. n + 1 \in 0 .. N
      OBVIOUS
    <2> HIDE DEF G, h
    <2> QED BY <2>5, <2>6
  <1>3. N \in S
    <2> HIDE DEF S, N
    <2> QED BY <1>1, <1>2, CountUp DEF N
  <1> DEFINE trim == CHOOSE g : G(N, g)
  <1>4. G(N, trim)
    <2>1. \E g : G(N, g)
      BY <1>3
    <2> HIDE DEF G
    <2> QED BY <2>1
  <1>5. EnforceBudget(s, ref) = trim[N]
    BY DEF EnforceBudget, Dropped
  <1>6. trim[0] = s /\ \A n \in 1 .. N : trim[n] = Dropped(trim[n - 1], ref)
    <2>1. trim = [n \in 0 .. N |-> IF n = 0 THEN s ELSE Dropped(trim[n - 1], ref)]
      BY <1>4
    <2>2. N \in Nat
      OBVIOUS
    <2> HIDE DEF trim, N
    <2>3. \A n \in 0 .. N : trim[n] = IF n = 0 THEN s ELSE Dropped(trim[n - 1], ref)
      BY <2>1
    <2> QED BY <2>2, <2>3
  <1> HIDE DEF trim
  <1> QED BY <1>5, <1>6

\* The budget is enforced without harm to what is left of the stream.
LEMMA EnforceInv ==
  ASSUME NEW f, NEW begin, NEW s, StreamInv(s, f, begin), NEW ref \in SeqNum
  PROVE  /\ StreamInv(EnforceBudget(s, ref), f, begin)
         /\ EnforceBudget(s, ref).next_seq = s.next_seq
         /\ EnforceBudget(s, ref).delivered = s.delivered
  <1> DEFINE N == Cardinality(s.pending)
             Good(t) == StreamInv(t, f, begin) /\ t.next_seq = s.next_seq /\ t.delivered = s.delivered
  <1>1. N \in Nat
    BY PendingFinite DEF StreamInv, Streams
  <1>2. ASSUME NEW t, Good(t) PROVE Good(Dropped(t, ref))
    <2>1. t \in Streams /\ t.pending \in SUBSET Pieces
      BY <1>2 DEF StreamInv, Streams
    <2>2. CASE Dropped(t, ref) = t
      BY <1>2, <2>2
    <2>3. CASE Dropped(t, ref) # t
      <3> DEFINE p == FrontPiece(t.pending, ref)
                 u == [t EXCEPT !.pending = @ \ {p}, !.pending_bytes = SatSub(@, p.len),
                                !.evicted = @ \cup {p}]
      <3>1. t.pending # {} /\ Dropped(t, ref) = u
        BY <2>3 DEF Dropped
      <3>2. p \in t.pending
        BY <2>1, <3>1, FrontPieceType
      <3>3. StreamInv(u, f, begin)
        <4> HIDE DEF p
        <4> QED BY <1>2, <3>2, DropInv
      <3>4. u.next_seq = t.next_seq /\ u.delivered = t.delivered
        BY <2>1 DEF Streams
      <3> HIDE DEF u
      <3> QED BY <1>2, <3>1, <3>3, <3>4
    <2> QED BY <2>2, <2>3
  <1>3. PICK g : /\ g[0] = s /\ \A n \in 1 .. N : g[n] = Dropped(g[n - 1], ref)
                 /\ EnforceBudget(s, ref) = g[N]
    BY <1>1, EnforceRounds
  <1> DEFINE S == {n \in 0 .. N : Good(g[n])}
  <1>4. 0 \in S
    BY <1>1, <1>3
  <1> HIDE DEF N, Good
  <1>5. ASSUME NEW n \in 0 .. N - 1, n \in S PROVE n + 1 \in S
    <2>1. n + 1 \in 1 .. N /\ n + 1 \in 0 .. N /\ (n + 1) - 1 = n
      BY <1>1
    <2>2. g[n + 1] = Dropped(g[n], ref)
      BY <1>3, <2>1
    <2> QED BY <1>2, <1>5, <2>1, <2>2
  <1>6. N \in S
    <2> HIDE DEF S
    <2> QED BY <1>1, <1>4, <1>5, CountUp
  <1> QED BY <1>3, <1>6 DEF Good

\* Handing out the piece that continues the stream lengthens the run by it.
LEMMA MoveFrontInv ==
  ASSUME NEW f, NEW begin, NEW s, StreamInv(s, f, begin)
  PROVE  StreamInv(MoveFront(s), f, begin) /\ (MoveFront(s).next_seq = NoSeq <=> s.next_seq = NoSeq)
  <1> DEFINE hit == {p \in s.pending : p.seq = s.next_seq}
             p == CHOOSE p \in hit : TRUE
             t == [s EXCEPT !.pending = @ \ {p}, !.pending_bytes = SatSub(@, p.len),
                            !.next_seq = (@ + p.len) % SeqSpace,
                            !.ready = @ + p.len, !.delivered = Append(@, p)]
  <1>1. MoveFront(s) = IF hit = {} THEN s ELSE t
    BY DEF MoveFront
  <1>2. CASE hit = {}
    BY <1>1, <1>2
  <1>3. CASE hit # {}
    <2>1. p \in s.pending /\ p.seq = s.next_seq
      BY <1>3
    <2> HIDE DEF hit, p
    <2>2. /\ s \in Streams /\ s.pending \subseteq Pieces /\ s.delivered \in Seq(Pieces)
          /\ s.pending_bytes \in Nat /\ s.ready \in Nat
      BY DEF StreamInv, Streams
    <2>3. p \in Pieces /\ p.len \in Nat /\ p.seq \in SeqNum /\ s.next_seq \in SeqNum /\ s.next_seq # NoSeq
      BY <2>1, <2>2, SpaceType DEF Pieces
    <2>4. (s.next_seq + p.len) % SeqSpace \in SeqNum
      <3>1. s.next_seq + p.len \in Int
        BY <2>3, SpaceType DEF SeqNum
      <3> QED BY <3>1, ModRange, SpaceType DEF SeqNum
    <2>5. SatSub(s.pending_bytes, p.len) \in Nat /\ s.ready + p.len \in Nat
      BY <2>2, <2>3 DEF SatSub
    <2>6. Append(s.delivered, p) \in Seq(Pieces)
      BY <2>2, <2>3
    <2>7. t \in Streams
      BY <2>2, <2>3, <2>4, <2>5, <2>6 DEF Streams
    <2>8. /\ t.pending = s.pending \ {p} /\ t.delivered = Append(s.delivered, p)
          /\ t.next_seq = (p.seq + p.len) % SeqSpace /\ t.next_seq # NoSeq
      BY <2>1, <2>2, <2>4, SpaceType DEF Streams
    <2> HIDE DEF t
    <2> DEFINE d == s.delivered
               e == t.delivered
               n == Len(d)
    <2>9. /\ n \in Nat /\ Len(e) = n + 1 /\ e[n + 1] = p /\ e # <<>>
          /\ \A i \in 1 .. n : e[i] = d[i]
          /\ d = <<>> <=> n = 0
      BY <2>2, <2>3, <2>8
    <2>10. AllCut(t, f)
      <3>1. AllCut(s, f) /\ CutFrom(p, f)
        BY <2>1 DEF StreamInv, AllCut
      <3>2. \A i \in 1 .. Len(e) : i = n + 1 \/ i \in 1 .. n
        BY <2>9
      <3> QED BY <3>1, <3>2, <2>8, <2>9 DEF AllCut
    <2>11. Run(d, begin, s.next_seq)
      BY <2>3 DEF StreamInv
    <2>12. Run(e, begin, t.next_seq)
      <3> HIDE DEF d, e, n
      <3>1. e[1].seq = begin
        <4>1. CASE n = 0
          BY <4>1, <2>1, <2>9, <2>11 DEF Run
        <4>2. CASE n # 0
          BY <4>2, <2>9, <2>11 DEF Run
        <4> QED BY <4>1, <4>2
      <3>2. ASSUME NEW i \in 1 .. Len(e)
            PROVE  (e[i].seq + e[i].len) % SeqSpace = IF i = Len(e) THEN t.next_seq ELSE e[i + 1].seq
        <4>1. CASE i = n + 1
          BY <4>1, <2>8, <2>9
        <4>2. CASE i = n
          <5>1. n # 0 /\ i \in 1 .. n /\ i # Len(e)
            BY <4>2, <2>9
          <5>2. (d[n].seq + d[n].len) % SeqSpace = s.next_seq
            BY <5>1, <4>2, <2>9, <2>11 DEF Run, n
          <5> QED BY <5>1, <5>2, <4>2, <2>1, <2>9
        <4>3. CASE i \in 1 .. n - 1
          <5>1. n # 0 /\ i \in 1 .. n /\ i # Len(e) /\ i # n /\ i + 1 \in 1 .. n
            BY <4>3, <2>9
          <5>2. (d[i].seq + d[i].len) % SeqSpace = d[i + 1].seq
            BY <5>1, <2>9, <2>11 DEF Run, n
          <5> QED BY <5>1, <5>2, <2>9
        <4> QED BY <4>1, <4>2, <4>3, <2>9
      <3> QED BY <3>1, <3>2, <2>9 DEF Run
    <2> QED BY <1>1, <1>3, <2>3, <2>7, <2>8, <2>10, <2>12 DEF StreamInv, hit
  <1> QED BY <1>2, <1>3

\* advance is so many rounds of MoveFront.
LEMMA AdvanceRounds ==
  ASSUME NEW s, Cardinality(s.pending) \in Nat
  PROVE  \E g : /\ g[0] = s
                /\ \A n \in 1 .. Cardinality(s.pending) : g[n] = MoveFront(g[n - 1])
                /\ Advance(s) = g[Cardinality(s.pending)]
  <1> DEFINE N == Cardinality(s.pending)
             G(k, g) == g = [n \in 0 .. k |-> IF n = 0 THEN s ELSE MoveFront(g[n - 1])]
             S == {k \in 0 .. N : \E g : G(k, g)}
  <1>1. 0 \in S
    <2> DEFINE g0 == [n \in 0 .. 0 |-> s]
    <2>1. g0 = [n \in 0 .. 0 |-> IF n = 0 THEN s ELSE MoveFront(g0[n - 1])]
      OBVIOUS
    <2>2. G(0, g0)
      BY <2>1
    <2> HIDE DEF G
    <2> QED BY <2>2
  <1>2. ASSUME NEW n \in 0 .. N - 1, n \in S PROVE n + 1 \in S
    <2>1. PICK g : G(n, g)
      BY <1>2
    <2> DEFINE h == [i \in 0 .. n + 1 |-> IF i = n + 1 THEN MoveFront(g[n]) ELSE g[i]]
    <2>2. \A i \in 0 .. n : g[i] = IF i = 0 THEN s ELSE MoveFront(g[i - 1])
      BY <2>1
    <2>3. \A i \in 0 .. n + 1 : h[i] = IF i = 0 THEN s ELSE MoveFront(h[i - 1])
      BY <2>2
    <2>4. h = [i \in 0 .. n + 1 |-> IF i = 0 THEN s ELSE MoveFront(h[i - 1])]
      BY <2>3
    <2>5. G(n + 1, h)
      BY <2>4
    <2>6. n + 1 \in 0 .. N
      OBVIOUS
    <2> HIDE DEF G, h
    <2> QED BY <2>5, <2>6
  <1>3. N \in S
    <2> HIDE DEF S, N
    <2> QED BY <1>1, <1>2, CountUp DEF N
  <1> DEFINE adv == CHOOSE g : G(N, g)
  <1>4. G(N, adv)
    <2>1. \E g : G(N, g)
      BY <1>3
    <2> HIDE DEF G
    <2> QED BY <2>1
  <1>5. Advance(s) = adv[N]
    BY DEF Advance
  <1>6. adv[0] = s /\ \A n \in 1 .. N : adv[n] = MoveFront(adv[n - 1])
    <2>1. adv = [n \in 0 .. N |-> IF n = 0 THEN s ELSE MoveFront(adv[n - 1])]
      BY <1>4
    <2>2. N \in Nat
      OBVIOUS
    <2> HIDE DEF adv, N
    <2>3. \A n \in 0 .. N : adv[n] = IF n = 0 THEN s ELSE MoveFront(adv[n - 1])
      BY <2>1
    <2> QED BY <2>2, <2>3
  <1> HIDE DEF adv
  <1> QED BY <1>5, <1>6

\* What advance hands out continues the run.
LEMMA AdvanceInv ==
  ASSUME NEW f, NEW begin, NEW s, StreamInv(s, f, begin)
  PROVE  StreamInv(Advance(s), f, begin) /\ (Advance(s).next_seq = NoSeq <=> s.next_seq = NoSeq)
  <1> DEFINE N == Cardinality(s.pending)
             Good(t) == StreamInv(t, f, begin) /\ (t.next_seq = NoSeq <=> s.next_seq = NoSeq)
  <1>1. N \in Nat
    BY PendingFinite DEF StreamInv, Streams
  <1>2. ASSUME NEW t, Good(t) PROVE Good(MoveFront(t))
    BY <1>2, MoveFrontInv
  <1>3. PICK g : g[0] = s /\ (\A n \in 1 .. N : g[n] = MoveFront(g[n - 1])) /\ Advance(s) = g[N]
    BY <1>1, AdvanceRounds
  <1> DEFINE S == {n \in 0 .. N : Good(g[n])}
  <1>4. 0 \in S
    BY <1>1, <1>3
  <1> HIDE DEF N, Good
  <1>5. ASSUME NEW n \in 0 .. N - 1, n \in S PROVE n + 1 \in S
    <2>1. n + 1 \in 1 .. N /\ n + 1 \in 0 .. N /\ (n + 1) - 1 = n
      BY <1>1
    <2>2. g[n + 1] = MoveFront(g[n])
      BY <1>3, <2>1
    <2> QED BY <1>2, <1>5, <2>1, <2>2
  <1>6. N \in S
    <2> HIDE DEF S
    <2> QED BY <1>1, <1>4, <1>5, CountUp
  <1> QED BY <1>3, <1>6 DEF Good

-----------------------------------------------------------------------------
(* One segment                                                              *)

\* What is ahead of the expected byte is a distance.
LEMMA AheadType ==
  ASSUME NEW s \in Streams, NEW seg \in Inputs
  PROVE  Expected(s, seg) \in SeqNum /\ Ahead(s, seg) \in 0 .. Half - 1
  <1>1. seg.seq \in SeqNum
    BY InputsAssumption
  <1>2. Expected(s, seg) \in SeqNum
    BY <1>1 DEF Expected, Streams
  <1>3. Distance(seg.seq, Expected(s, seg)) \in -Half .. Half - 1
    BY <1>1, <1>2, DistanceType
  <1> QED BY <1>2, <1>3, SpaceType DEF Ahead

\* The verdict and the flags are no part of the invariant.
LEMMA NotedInv ==
  ASSUME NEW f, NEW begin, NEW s, StreamInv(s, f, begin), NEW t \in Streams,
         t.next_seq = s.next_seq, t.delivered = s.delivered, t.pending = s.pending
  PROVE  StreamInv(t, f, begin)
  BY DEF StreamInv, AllCut

\* The payload of a segment without its old bytes, as feed buffers it.
NewPart(s, seg, id) ==
  [seq |-> (seg.seq + Ahead(s, seg)) % SeqSpace, len |-> seg.len - Ahead(s, seg),
   feed |-> id, off |-> Ahead(s, seg)]

\* It is a part of the segment.
LEMMA NewPartCut ==
  ASSUME NEW f \in Seq(Inputs), Len(f) <= MaxFeeds, NEW id \in 1 .. Len(f), NEW s \in Streams,
         Ahead(s, f[id]) < f[id].len
  PROVE  CutFrom(NewPart(s, f[id], id), f)
  <1> DEFINE seg   == f[id]
             ahead == Ahead(s, seg)
             p     == NewPart(s, seg, id)
  <1>1. seg \in Inputs /\ seg.seq \in SeqNum /\ seg.len \in 0 .. Half - 1
    BY InputsAssumption
  <1>2. ahead \in 0 .. Half - 1 /\ ahead < seg.len
    BY <1>1, AheadType
  <1> HIDE DEF seg, ahead
  <1>3. /\ p.seq = (seg.seq + ahead) % SeqSpace /\ p.len = seg.len - ahead /\ p.feed = id /\ p.off = ahead
        /\ p = [seq |-> p.seq, len |-> p.len, feed |-> p.feed, off |-> p.off]
    BY DEF NewPart, ahead
  <1>4. seg.seq + ahead \in Int
    BY <1>1, <1>2, SpaceType DEF SeqNum
  <1>5. p.seq \in SeqNum
    BY <1>3, <1>4, ModRange, SpaceType DEF SeqNum
  <1>6. seg.len - ahead \in 1 .. Half - 1 /\ ahead + (seg.len - ahead) <= seg.len
    BY <1>1, <1>2, SpaceType
  <1>7. id \in 1 .. MaxFeeds
    BY InputsAssumption
  <1> HIDE DEF p
  <1>8. p \in Pieces
    BY <1>2, <1>3, <1>5, <1>6, <1>7 DEF Pieces
  <1> QED BY <1>3, <1>6, <1>8 DEF CutFrom, seg, p

\* The stream with that part buffered: <<what insert_pending makes>>, and the stream.
Merged(s, seg, id) == InsertPending(s.pending, Expected(s, seg), NewPart(s, seg, id))

Buffered(s, seg, id) ==
  LET ins == Merged(s, seg, id)
  IN  [s EXCEPT !.next_seq = Expected(s, seg), !.pending = ins[1],
                !.pending_bytes = SatSub(@ + ins[2], NewPart(s, seg, id).len - ins[2])]

\* Payload that is buffered keeps the invariant, and the stream has begun.
LEMMA InsertedInv ==
  ASSUME NEW f \in Seq(Inputs), Len(f) <= MaxFeeds, NEW id \in 1 .. Len(f), NEW begin,
         NEW s, StreamInv(s, f, begin), s.next_seq = NoSeq => begin = f[id].seq,
         Ahead(s, f[id]) < f[id].len
  PROVE  /\ StreamInv(Buffered(s, f[id], id), f, begin)
         /\ Buffered(s, f[id], id).next_seq = Expected(s, f[id]) /\ Expected(s, f[id]) # NoSeq
  <1> DEFINE n == Expected(s, f[id])
             p == NewPart(s, f[id], id)
             ins == Merged(s, f[id], id)
             t == Buffered(s, f[id], id)
  <1>1. s \in Streams /\ s.pending \subseteq Pieces /\ s.pending_bytes \in Nat /\ f[id] \in Inputs
    BY DEF StreamInv, Streams
  <1>2. n \in SeqNum
    BY <1>1, AheadType
  <1>3. CutFrom(p, f)
    BY <1>1, NewPartCut
  <1> HIDE DEF p
  <1>4. ins[1] \subseteq Pieces /\ ins[2] \in Nat /\ \A q \in ins[1] : CutFrom(q, f)
    <2> HIDE DEF n
    <2>1. ins = InsertPending(s.pending, n, p)
      BY DEF n, p, Merged
    <2> HIDE DEF ins
    <2> QED BY <1>1, <1>2, <1>3, <2>1, InsertCuts DEF StreamInv, AllCut
  <1> HIDE DEF ins
  <1>5. p.len \in Nat
    BY <1>3 DEF CutFrom, Pieces
  <1>6. SatSub(s.pending_bytes + ins[2], p.len - ins[2]) \in Nat
    BY <1>1, <1>4, <1>5 DEF SatSub
  <1>11. t = [s EXCEPT !.next_seq = n, !.pending = ins[1],
                       !.pending_bytes = SatSub(@ + ins[2], p.len - ins[2])]
    BY DEF Buffered, n, ins, p
  <1> HIDE DEF t
  <1>7. t \in Streams
    BY <1>1, <1>2, <1>4, <1>6, <1>11 DEF Streams
  <1>8. t.next_seq = n /\ t.pending = ins[1] /\ t.delivered = s.delivered /\ n # NoSeq
    BY <1>1, <1>2, <1>11, SpaceType DEF Streams
  <1>9. AllCut(t, f)
    BY <1>4, <1>8 DEF StreamInv, AllCut
  <1>10. Run(t.delivered, begin, n)
    <2>1. CASE s.next_seq = NoSeq
      BY <2>1, <1>8 DEF StreamInv, Run, Expected
    <2>2. CASE s.next_seq # NoSeq
      BY <2>2, <1>8 DEF StreamInv, Expected
    <2> QED BY <2>1, <2>2
  <1> QED BY <1>2, <1>7, <1>8, <1>9, <1>10 DEF StreamInv, t

\* Payload is buffered, cut to the budget and handed out.
LEMMA FeedDataInv ==
  ASSUME NEW f \in Seq(Inputs), Len(f) <= MaxFeeds, NEW id \in 1 .. Len(f), NEW begin,
         NEW s, StreamInv(s, f, begin), s.next_seq = NoSeq => begin = f[id].seq,
         f[id].len > 0, Ahead(s, f[id]) < f[id].len
  PROVE  /\ StreamInv(FeedData(s, f[id], id), f, begin)
         /\ FeedData(s, f[id], id).next_seq # NoSeq
  <1> DEFINE seg   == f[id]
             n     == Expected(s, seg)
             ahead == Ahead(s, seg)
             p     == [seq |-> (seg.seq + ahead) % SeqSpace, len |-> seg.len - ahead,
                       feed |-> id, off |-> ahead]
             ins   == InsertPending(s.pending, n, p)
             t     == [s EXCEPT !.next_seq = n, !.pending = ins[1],
                                !.pending_bytes = SatSub(@ + ins[2], p.len - ins[2])]
             over  == \/ t.pending_bytes + t.ready > MaxStreamBuffer
                      \/ Cardinality(t.pending) > MaxSegments
             kept  == IF over THEN [EnforceBudget(t, n) EXCEPT !.overflow = TRUE] ELSE t
             out   == IF ins[2] = 0 THEN [t EXCEPT !.verdict = "Retransmission"]
                      ELSE [Advance(kept) EXCEPT
                             !.verdict = IF ins[2] = p.len /\ SeqBefore(n, p.seq) THEN "Buffered"
                                         ELSE IF ins[2] < p.len \/ ahead > 0 THEN "PartialOverlap"
                                         ELSE "InOrder"]
  <1>0. FeedData(s, seg, id) = out
    BY DEF FeedData
  <1>1. p = NewPart(s, seg, id)
    BY DEF NewPart
  <1>2. seg.len > 0 /\ ahead < seg.len
    OBVIOUS
  <1> HIDE DEF p
  <1>3. n \in SeqNum
    <2>1. seg \in Inputs /\ s \in Streams
      BY DEF StreamInv
    <2> QED BY <2>1, AheadType
  <1>6. StreamInv(t, f, begin) /\ t.next_seq = n /\ n # NoSeq
    <2>1. t = Buffered(s, f[id], id)
      BY <1>1 DEF Buffered, Merged
    <2>2. n = Expected(s, f[id]) /\ Ahead(s, f[id]) < f[id].len
      BY <1>2
    <2> HIDE DEF t, n, seg, ahead
    <2>3. /\ StreamInv(Buffered(s, f[id], id), f, begin)
          /\ Buffered(s, f[id], id).next_seq = Expected(s, f[id]) /\ Expected(s, f[id]) # NoSeq
      BY <2>2, InsertedInv DEF seg
    <2> QED BY <2>1, <2>2, <2>3
  <1> HIDE DEF seg, n, ahead, ins
  <1> HIDE DEF t
  <1>7. StreamInv(kept, f, begin) /\ kept.next_seq # NoSeq
    <2> DEFINE e == EnforceBudget(t, n)
               u == [e EXCEPT !.overflow = TRUE]
    <2>1. StreamInv(e, f, begin) /\ e.next_seq = n
      BY <1>3, <1>6, EnforceInv
    <2> HIDE DEF e
    <2>2. u \in Streams /\ u.next_seq = e.next_seq /\ u.delivered = e.delivered /\ u.pending = e.pending
      BY <2>1 DEF StreamInv, Streams
    <2> HIDE DEF u
    <2>3. StreamInv(u, f, begin)
      BY <2>1, <2>2, NotedInv
    <2>4. kept = IF over THEN u ELSE t
      BY DEF e, u
    <2> HIDE DEF kept, over
    <2> QED BY <1>6, <2>1, <2>2, <2>3, <2>4
  <1> HIDE DEF kept
  <1>8. StreamInv(Advance(kept), f, begin) /\ Advance(kept).next_seq # NoSeq
    BY <1>7, AdvanceInv
  <1>9. \A w \in Streams, v \in {"Retransmission", "Buffered", "PartialOverlap", "InOrder"} :
          LET x == [w EXCEPT !.verdict = v]
          IN  x \in Streams /\ x.next_seq = w.next_seq /\ x.delivered = w.delivered /\ x.pending = w.pending
    BY DEF Streams
  <1>10. PICK w \in {t, Advance(kept)}, v \in {"Retransmission", "Buffered", "PartialOverlap", "InOrder"} :
           out = [w EXCEPT !.verdict = v]
    OBVIOUS
  <1>11. StreamInv(w, f, begin) /\ w.next_seq # NoSeq /\ w \in Streams
    BY <1>6, <1>8 DEF StreamInv
  <1> DEFINE x == [w EXCEPT !.verdict = v]
  <1>12. /\ x \in Streams /\ x.next_seq = w.next_seq /\ x.delivered = w.delivered
         /\ x.pending = w.pending
    BY <1>9, <1>11
  <1>13. out = x
    BY <1>10
  <1> HIDE DEF out, x
  <1>14. StreamInv(x, f, begin)
    BY <1>11, <1>12, NotedInv
  <1> QED BY <1>0, <1>11, <1>12, <1>13, <1>14 DEF seg

\* Feeding keeps the invariant, and starts the stream if the segment does.
LEMMA FeedInv ==
  ASSUME NEW f \in Seq(Inputs), Len(f) <= MaxFeeds, NEW id \in 1 .. Len(f), NEW begin,
         NEW s, StreamInv(s, f, begin),
         s.next_seq = NoSeq /\ StartsStream(f[id]) =>
           begin = IF f[id].len = 0 THEN (f[id].seq + 1) % SeqSpace ELSE f[id].seq
  PROVE  /\ StreamInv(FeedSegment(s, f[id], id), f, begin)
         /\ FeedSegment(s, f[id], id).next_seq = NoSeq <=> s.next_seq = NoSeq /\ ~ StartsStream(f[id])
  <1> DEFINE seg == f[id]
             t == [s EXCEPT !.rst_seen = @ \/ "RST" \in seg.flags, !.fin_seen = @ \/ "FIN" \in seg.flags]
  <1>1. seg \in Inputs /\ seg.seq \in SeqNum /\ seg.len \in 0 .. Half - 1
    BY InputsAssumption
  <1>2. s \in Streams
    BY DEF StreamInv
  <1>3. /\ t \in Streams /\ t.next_seq = s.next_seq /\ t.delivered = s.delivered /\ t.pending = s.pending
    BY <1>2 DEF Streams
  <1> HIDE DEF t
  <1>4. StreamInv(t, f, begin)
    BY <1>3, NotedInv
  <1>5. FeedSegment(s, seg, id) =
          IF seg.len = 0 THEN FeedEmpty(t, seg)
          ELSE IF Ahead(t, seg) >= seg.len THEN [t EXCEPT !.verdict = "Retransmission"]
          ELSE FeedData(t, seg, id)
    BY DEF FeedSegment, t
  <1>6. CASE seg.len = 0
    <2> DEFINE moved == t.next_seq = NoSeq /\ "SYN" \in seg.flags
               first == (seg.seq + 1) % SeqSpace
               u == [t EXCEPT !.verdict = "InOrder", !.next_seq = IF moved THEN first ELSE @]
    <2>1. FeedSegment(s, seg, id) = u
      BY <1>3, <1>5, <1>6 DEF FeedEmpty, Streams
    <2>2. first \in SeqNum
      <3>1. seg.seq + 1 \in Int
        BY <1>1, SpaceType DEF SeqNum
      <3> QED BY <3>1, ModRange, SpaceType DEF SeqNum
    <2> HIDE DEF first
    <2>3. /\ u \in Streams /\ u.next_seq = (IF moved THEN first ELSE t.next_seq)
          /\ u.delivered = t.delivered /\ u.pending = t.pending
      BY <1>3, <2>2 DEF Streams
    <2>4. StartsStream(seg) <=> "SYN" \in seg.flags
      BY <1>6 DEF StartsStream
    <2> HIDE DEF u
    <2>5. CASE moved
      <3>1. u.next_seq = begin /\ u.next_seq # NoSeq /\ u.delivered = <<>>
        BY <1>3, <1>4, <1>6, <2>2, <2>3, <2>4, <2>5, SpaceType DEF first, StreamInv
      <3>2. StreamInv(u, f, begin)
        BY <1>4, <2>3, <3>1 DEF StreamInv, AllCut, Run
      <3> QED BY <1>3, <2>1, <2>4, <2>5, <3>1, <3>2
    <2>6. CASE ~ moved
      <3>1. StreamInv(u, f, begin)
        BY <1>4, <2>3, <2>6, NotedInv
      <3> QED BY <1>3, <2>1, <2>3, <2>4, <2>6, <3>1
    <2> QED BY <2>5, <2>6
  <1>7. CASE seg.len # 0 /\ Ahead(t, seg) >= seg.len
    <2> DEFINE u == [t EXCEPT !.verdict = "Retransmission"]
    <2>1. FeedSegment(s, seg, id) = u
      BY <1>5, <1>7
    <2>2. u \in Streams /\ u.next_seq = t.next_seq /\ u.delivered = t.delivered /\ u.pending = t.pending
      BY <1>3 DEF Streams
    <2>3. StreamInv(u, f, begin)
      <3> HIDE DEF u
      <3> QED BY <1>4, <2>2, NotedInv
    <2>4. t.next_seq # NoSeq
      <3> SUFFICES ASSUME t.next_seq = NoSeq PROVE FALSE
        OBVIOUS
      <3>1. Expected(t, seg) = seg.seq
        BY DEF Expected
      <3>2. Distance(seg.seq, seg.seq) = 0
        <4>1. seg.seq - seg.seq + Half = Half
          BY <1>1, SpaceType DEF SeqNum
        <4>2. Half % SeqSpace = Half
          BY SpaceType
        <4> QED BY <4>1, <4>2, SpaceType DEF Distance
      <3>3. Ahead(t, seg) = 0
        BY <3>1, <3>2 DEF Ahead
      <3> QED BY <1>1, <1>7, <3>3
    <2> HIDE DEF u
    <2> QED BY <1>3, <2>1, <2>2, <2>3, <2>4
  <1>8. CASE seg.len # 0 /\ ~ (Ahead(t, seg) >= seg.len)
    <2>1. seg.len > 0 /\ Ahead(t, seg) < seg.len
      <3>1. Ahead(t, seg) \in Int
        BY <1>1, <1>3, AheadType, SpaceType
      <3> QED BY <3>1, <1>1, <1>8
    <2>2. StartsStream(seg)
      BY <2>1 DEF StartsStream
    <2>3. t.next_seq = NoSeq => begin = seg.seq
      BY <1>3, <1>8, <2>2
    <2>4. FeedSegment(s, seg, id) = FeedData(t, seg, id)
      BY <1>5, <1>8
    <2> QED BY <1>4, <2>1, <2>2, <2>3, <2>4, FeedDataInv
  <1> QED BY <1>6, <1>7, <1>8

-----------------------------------------------------------------------------
(* The specification                                                        *)

\* More segments leave what was cut as it was.
LEMMA CutMonotone ==
  ASSUME NEW f \in Seq(Inputs), NEW seg \in Inputs, NEW begin, NEW s, StreamInv(s, f, begin)
  PROVE  StreamInv(s, Append(f, seg), begin)
  <1>1. \A i \in 1 .. Len(f) : i \in 1 .. Len(Append(f, seg)) /\ Append(f, seg)[i] = f[i]
    OBVIOUS
  <1>2. \A p : CutFrom(p, f) => CutFrom(p, Append(f, seg))
    BY <1>1 DEF CutFrom
  <1> QED BY <1>2 DEF StreamInv, AllCut

\* Of the segments that start a stream the first decides where it begins.
LEMMA FirstStarter ==
  ASSUME NEW S \in SUBSET Nat, S # {}
  PROVE  /\ (CHOOSE x \in S : \A y \in S : x <= y) \in S
         /\ \A z \in S : (CHOOSE x \in S : \A y \in S : x <= y) <= z
  <1>1. \E x \in S : \A y \in S : x <= y
    BY LeastNumber
  <1> QED BY <1>1

\* A segment changes the beginning only if it is the first to start the stream.
LEMMA StartAfter ==
  ASSUME feeds \in Seq(Inputs), NEW seg \in Inputs, feeds' = Append(feeds, seg)
  PROVE  /\ Starters' = Starters \cup (IF StartsStream(seg) THEN {Len(feeds) + 1} ELSE {})
         /\ Starters # {} => Start' = Start
         /\ Starters = {} /\ StartsStream(seg) =>
              Start' = IF seg.len = 0 THEN (seg.seq + 1) % SeqSpace ELSE seg.seq
  <1> DEFINE n == Len(feeds)
             least(S) == CHOOSE x \in S : \A y \in S : x <= y
  <1>1. /\ n \in Nat /\ DOMAIN feeds = 1 .. n /\ DOMAIN feeds' = 1 .. n + 1
        /\ feeds'[n + 1] = seg /\ \A i \in 1 .. n : feeds'[i] = feeds[i]
    OBVIOUS
  <1>2. Starters = {i \in 1 .. n : StartsStream(feeds[i])}
    BY <1>1 DEF Starters, StartsStream
  <1>3. Starters' = {i \in 1 .. n + 1 : StartsStream(feeds'[i])}
    BY <1>1 DEF Starters, StartsStream
  <1>4. Starters' = Starters \cup (IF StartsStream(seg) THEN {n + 1} ELSE {})
    <2> HIDE DEF n
    <2> QED BY <1>1, <1>2, <1>3
  <1>5. Start = LET x == least(Starters)
                IN  IF feeds[x].len = 0 THEN (feeds[x].seq + 1) % SeqSpace ELSE feeds[x].seq
    BY DEF Start
  <1>6. Start' = LET x == least(Starters')
                 IN  IF feeds'[x].len = 0 THEN (feeds'[x].seq + 1) % SeqSpace ELSE feeds'[x].seq
    BY DEF Start
  <1>7. ASSUME NEW S \in SUBSET Nat, S # {} PROVE least(S) \in S /\ \A y \in S : least(S) <= y
    BY <1>7, FirstStarter
  <1>8. Starters \in SUBSET (1 .. n) /\ Starters \in SUBSET Nat
    BY <1>1, <1>2
  <1> HIDE DEF n, least
  <1>9. ASSUME Starters # {} PROVE Start' = Start
    <2>1. least(Starters) \in Starters /\ \A y \in Starters : least(Starters) <= y
      BY <1>7, <1>8, <1>9
    <2>2. Starters' \in SUBSET Nat /\ Starters' # {}
      BY <1>1, <1>4, <1>8, <1>9
    <2>3. least(Starters') \in Starters' /\ \A y \in Starters' : least(Starters') <= y
      BY <1>7, <2>2
    <2>4. least(Starters') = least(Starters)
      <3>1. least(Starters') <= least(Starters) /\ least(Starters) \in 1 .. n
        BY <2>1, <2>3, <1>4, <1>8
      <3>2. least(Starters') \in Starters
        BY <3>1, <2>2, <2>3, <1>1, <1>4
      <3>3. least(Starters) <= least(Starters')
        BY <3>2, <2>1
      <3>4. least(Starters') \in Nat /\ least(Starters) \in Nat
        BY <2>1, <2>2, <2>3, <1>8
      <3> QED BY <3>1, <3>3, <3>4
    <2>5. feeds'[least(Starters)] = feeds[least(Starters)]
      BY <2>1, <1>1, <1>8
    <2> QED BY <1>5, <1>6, <2>4, <2>5
  <1>10. ASSUME Starters = {}, StartsStream(seg)
         PROVE  Start' = IF seg.len = 0 THEN (seg.seq + 1) % SeqSpace ELSE seg.seq
    <2>1. Starters' = {n + 1} /\ Starters' \in SUBSET Nat
      BY <1>1, <1>4, <1>10
    <2>2. least(Starters') = n + 1
      BY <1>7, <2>1
    <2> QED BY <1>1, <1>6, <2>2
  <1> QED BY <1>4, <1>9, <1>10 DEF n

\* Nothing has been fed or delivered yet.
LEMMA InitInv == Init => ReassemblyInv
  <1> SUFFICES ASSUME Init PROVE ReassemblyInv
    OBVIOUS
  <1>1. feeds \in Seq(Inputs) /\ Len(feeds) = 0 /\ DOMAIN feeds = {} /\ MaxFeeds \in Nat
    BY InputsAssumption DEF Init
  <1>2. Starters = {}
    BY <1>1 DEF Starters
  <1>3. stream = EmptyStream /\ <<>> \in Seq(Pieces)
    BY DEF Init
  <1>4. stream \in Streams /\ stream.next_seq = NoSeq /\ stream.delivered = <<>> /\ stream.pending = {}
    BY <1>3 DEF EmptyStream, Streams
  <1>5. StreamInv(stream, feeds, Start)
    BY <1>4 DEF StreamInv, AllCut
  <1> QED BY <1>1, <1>2, <1>4, <1>5 DEF ReassemblyInv

\* A segment fed keeps the invariant ...
LEMMA FeedStep ==
  ASSUME ReassemblyInv, NEW seg \in Inputs, Feed(seg)
  PROVE  ReassemblyInv'
  <1> DEFINE id == Len(feeds) + 1
  <1>1. /\ feeds \in Seq(Inputs) /\ Len(feeds) < MaxFeeds /\ feeds' = Append(feeds, seg)
        /\ stream' = FeedSegment(stream, seg, id) /\ MaxFeeds \in Nat
    BY InputsAssumption DEF ReassemblyInv, Feed
  <1>2. /\ feeds' \in Seq(Inputs) /\ Len(feeds') = id /\ Len(feeds') <= MaxFeeds
        /\ id \in 1 .. Len(feeds') /\ feeds'[id] = seg
    BY <1>1
  <1>3. /\ Starters' = Starters \cup (IF StartsStream(seg) THEN {id} ELSE {})
        /\ Starters # {} => Start' = Start
        /\ Starters = {} /\ StartsStream(seg) =>
             Start' = IF seg.len = 0 THEN (seg.seq + 1) % SeqSpace ELSE seg.seq
    BY <1>1, StartAfter
  <1>4. StreamInv(stream, feeds', Start)
    BY <1>1, CutMonotone DEF ReassemblyInv
  <1>5. StreamInv(stream, feeds', Start')
    <2>1. CASE Starters # {}
      BY <1>3, <1>4, <2>1
    <2>2. CASE Starters = {}
      BY <1>4, <2>2 DEF ReassemblyInv, StreamInv
    <2> QED BY <2>1, <2>2
  <1> HIDE DEF id
  <1>6. stream.next_seq = NoSeq <=> Starters = {}
    BY DEF ReassemblyInv
  <1>7. /\ StreamInv(FeedSegment(stream, feeds'[id], id), feeds', Start')
        /\ FeedSegment(stream, feeds'[id], id).next_seq = NoSeq
             <=> stream.next_seq = NoSeq /\ ~ StartsStream(feeds'[id])
    <2> DEFINE f == feeds'
               begin == Start'
    <2>1. f \in Seq(Inputs) /\ Len(f) <= MaxFeeds /\ id \in 1 .. Len(f) /\ StreamInv(stream, f, begin)
      BY <1>2, <1>5
    <2>2. stream.next_seq = NoSeq /\ StartsStream(f[id]) =>
            begin = IF f[id].len = 0 THEN (f[id].seq + 1) % SeqSpace ELSE f[id].seq
      BY <1>2, <1>3, <1>6
    <2> HIDE DEF f, begin
    <2>3. /\ StreamInv(FeedSegment(stream, f[id], id), f, begin)
          /\ FeedSegment(stream, f[id], id).next_seq = NoSeq
               <=> stream.next_seq = NoSeq /\ ~ StartsStream(f[id])
      BY <2>1, <2>2, FeedInv
    <2> QED BY <2>3 DEF f, begin
  <1>8. stream'.next_seq = NoSeq <=> Starters' = {}
    BY <1>1, <1>2, <1>3, <1>6, <1>7
  <1>9. StreamInv(stream', feeds', Start')
    BY <1>1, <1>2, <1>7
  <1> QED BY <1>2, <1>8, <1>9 DEF ReassemblyInv

\* ... and so does taking what is ready.
LEMMA TakeStep ==
  ASSUME ReassemblyInv, TakeContiguous
  PROVE  ReassemblyInv'
  <1> DEFINE t == Advance(stream)
  <1>1. feeds' = feeds /\ stream' = [t EXCEPT !.ready = 0]
    BY DEF TakeContiguous, TakeReady
  <1>2. Starters' = Starters /\ Start' = Start
    BY <1>1 DEF Starters, Start
  <1>3. StreamInv(t, feeds, Start) /\ (t.next_seq = NoSeq <=> stream.next_seq = NoSeq)
    BY AdvanceInv DEF ReassemblyInv
  <1> HIDE DEF t
  <1>4. /\ stream' \in Streams /\ stream'.next_seq = t.next_seq /\ stream'.delivered = t.delivered
        /\ stream'.pending = t.pending
    BY <1>1, <1>3 DEF StreamInv, Streams
  <1>5. StreamInv(stream', feeds, Start)
    BY <1>3, <1>4, NotedInv
  <1> QED BY <1>1, <1>2, <1>3, <1>4, <1>5 DEF ReassemblyInv

\* Every step keeps it.
LEMMA NextInv == ReassemblyInv /\ [Next]_vars => ReassemblyInv'
  <1> SUFFICES ASSUME ReassemblyInv, [Next]_vars PROVE ReassemblyInv'
    OBVIOUS
  <1>1. CASE TakeContiguous
    BY <1>1, TakeStep
  <1>2. ASSUME NEW seg \in Inputs, Feed(seg) PROVE ReassemblyInv'
    BY <1>2, FeedStep
  <1>3. CASE UNCHANGED vars
    BY <1>3 DEF vars, ReassemblyInv, Starters, Start
  <1> QED BY <1>1, <1>2, <1>3 DEF Next

\* The inductive invariant: every piece held or handed out is a part of the
\* segment it names, and what was handed out is one run from the start of the
\* stream to the expected byte.
THEOREM ReassemblyInvariant == Spec => []ReassemblyInv
  BY InitInv, NextInv, PTL DEF Spec

\* The stream buffer keeps to its types: pieces are never empty and never longer
\* than a segment, for every policy, limit and size of the sequence space.
THEOREM ReassemblyTypeCorrect == Spec => []TypeOK
  <1>1. ReassemblyInv => TypeOK
    BY DEF ReassemblyInv, StreamInv, Streams, TypeOK, next_seq, pending, delivered
  <1> QED BY <1>1, ReassemblyInvariant, PTL

\* reassembly.rs: the interval arithmetic of insert_pending, the trimming in feed,
\* the budget and advance never shift, repeat or skip a byte: what is handed to
\* consumers is one gap-free run from the start of the stream, byte for byte what
\* some segment carried, however the sequence numbers wrap.
THEOREM BytesDeliveredInOrder == Spec => []DeliveredIsSent
  <1>1. ReassemblyInv => DeliveredIsSent
    <2> SUFFICES ASSUME ReassemblyInv PROVE DeliveredIsSent
      OBVIOUS
    <2>1. /\ stream.delivered \in Seq(Pieces) /\ AllCut(stream, feeds)
          /\ stream.next_seq # NoSeq => Run(stream.delivered, Start, stream.next_seq)
      BY DEF ReassemblyInv, StreamInv, Streams
    <2>2. DOMAIN delivered = 1 .. Len(delivered)
      BY <2>1 DEF delivered
    <2>3. \A p \in pending \cup Delivered : CutFrom(p, feeds)
      BY <2>1, <2>2 DEF AllCut, Delivered, pending, delivered
    <2> QED BY <2>1, <2>2, <2>3 DEF DeliveredIsSent, CutFrom, Run, next_seq, delivered
  <1> QED BY <1>1, ReassemblyInvariant, PTL

-----------------------------------------------------------------------------
(* The window                                                               *)
(* While a stream fits half of the sequence space, each number has a place  *)
(* in the window that opens at `base`, and distances are differences of     *)
(* places.                                                                  *)

\* The place of a sequence number in the window that opens at `base`.
At(base, x) == (x - base) % SeqSpace

\* The places a piece covers, and those a set of pieces covers.
Cells(base, p) == At(base, p.seq) .. At(base, p.seq) + p.len - 1
CellsOf(base, P) == UNION {Cells(base, p) : p \in P}

\* The pieces s has handed out.
Handed(s) == {s.delivered[i] : i \in 1 .. Len(s.delivered)}

\* Where things are: the delivered bytes are those from `begin` up to the expected
\* one, the buffered pieces lie behind them and apart from each other, and no two
\* parts of one segment overlap, be they buffered or dropped.
Placed(base, s, begin) ==
  /\ s.next_seq = NoSeq => s.pending = {} /\ s.evicted = {}
  /\ s.next_seq # NoSeq =>
       /\ begin \in SeqNum /\ At(base, s.next_seq) < Half
       /\ At(base, begin) <= At(base, s.next_seq)
       /\ CellsOf(base, Handed(s)) = At(base, begin) .. At(base, s.next_seq) - 1
       /\ \A p \in s.pending : At(base, s.next_seq) <= At(base, p.seq)
  /\ \A p, q \in s.pending : p # q => Cells(base, p) \cap Cells(base, q) = {}
  /\ \A p \in s.pending, e \in s.evicted :
       p.feed = e.feed => Cells(base, p) \cap Cells(base, e) = {}

\* Between calls nothing waits at the expected byte.
Settled(s) == \A p \in s.pending : p.seq # s.next_seq

\* What segment j of f carries, as places of the window.
CarriedCells(base, f, j) == At(base, f[j].seq) .. At(base, f[j].seq) + f[j].len - 1

\* Every byte captured since the stream began is buffered, handed out or dropped.
Accounted(base, s, f, begin) ==
  s.next_seq # NoSeq =>
    \A j \in 1 .. Len(f) : \A x \in CarriedCells(base, f, j) :
      At(base, begin) <= x => x \in CellsOf(base, s.pending \cup Handed(s) \cup s.evicted)

\* A later copy of a byte is in use only where an earlier one was dropped.
EarliestUsed(base, s, f) ==
  Policy = "FirstWins" =>
    \A p \in s.pending \cup Handed(s) : \A x \in Cells(base, p) : \A j \in 1 .. p.feed - 1 :
      x \in CarriedCells(base, f, j) => \E e \in s.evicted : e.feed < p.feed /\ x \in Cells(base, e)

\* All of that, and an account that never exceeds what is buffered.
StreamPlaced(base, s, f, begin) ==
  /\ StreamInv(s, f, begin) /\ \A e \in s.evicted : CutFrom(e, f)
  /\ Placed(base, s, begin) /\ Accounted(base, s, f, begin) /\ EarliestUsed(base, s, f)
  /\ Policy = "FirstWins" => s.pending_bytes <= Cardinality(CellsOf(base, s.pending))

WindowInv(base) ==
  /\ ReassemblyInv /\ StreamPlaced(base, stream, feeds, Start) /\ Settled(stream)
  /\ ~ stream.overflow => stream.evicted = {}

\* Stream t comes from s by dropping pieces and handing pieces out.
Onward(s, t) ==
  /\ Len(s.delivered) <= Len(t.delivered)
  /\ \A i \in 1 .. Len(s.delivered) : t.delivered[i] = s.delivered[i]
  /\ s.evicted \subseteq t.evicted
  /\ s.pending \subseteq t.pending \cup (t.evicted \ s.evicted)
                 \cup {t.delivered[i] : i \in Len(s.delivered) + 1 .. Len(t.delivered)}

-----------------------------------------------------------------------------
(* Places                                                                   *)

\* A piece lies in the window.
Within(base, p) == p \in Pieces /\ At(base, p.seq) + p.len < Half

\* Every number has a place.
LEMMA AtType ==
  ASSUME NEW base \in SeqNum, NEW x \in SeqNum
  PROVE  At(base, x) \in 0 .. SeqSpace - 1 /\ At(base, x) \in Nat
  <1>1. x - base \in Int
    BY SpaceType DEF SeqNum
  <1>2. (x - base) % SeqSpace \in 0 .. SeqSpace - 1
    BY <1>1, SpaceType, ModRange
  <1> QED BY <1>2, SpaceType DEF At

\* No two numbers share one.
LEMMA AtUnique ==
  ASSUME NEW base \in SeqNum, NEW x \in SeqNum, NEW y \in SeqNum, At(base, x) = At(base, y)
  PROVE  x = y
  <1>1. x - base \in Int /\ y - base \in Int /\ base \in Int /\ x \in Int /\ y \in Int
    BY SpaceType DEF SeqNum
  <1>2. ((x - base) + base) % SeqSpace = ((y - base) + base) % SeqSpace
    <2> DEFINE u == x - base
               v == y - base
    <2>1. u \in Int /\ v \in Int /\ u % SeqSpace = v % SeqSpace
      BY <1>1 DEF At
    <2> HIDE DEF u, v
    <2>2. SeqSpace \in Nat \ {0} /\ base \in Int
      BY <1>1, SpaceType
    <2>3. (u + base) % SeqSpace = (v + base) % SeqSpace
      BY <2>1, <2>2, ModAdd
    <2> QED BY <2>3 DEF u, v
  <1>3. (x - base) + base = x /\ (y - base) + base = y
    BY <1>1
  <1>4. x % SeqSpace = y % SeqSpace
    BY <1>2, <1>3
  <1>5. ((SeqSpace * 0) + x) % SeqSpace = x /\ ((SeqSpace * 0) + y) % SeqSpace = y
    BY SpaceType, ModUnique DEF SeqNum
  <1>6. (SeqSpace * 0) + x = x /\ (SeqSpace * 0) + y = y
    BY <1>1, SpaceType
  <1> QED BY <1>4, <1>5, <1>6

\* Going d from x goes d in the window.
LEMMA AtShift ==
  ASSUME NEW base \in SeqNum, NEW x \in SeqNum, NEW d \in Int, At(base, x) + d \in 0 .. SeqSpace - 1
  PROVE  (x + d) % SeqSpace \in SeqNum /\ At(base, (x + d) % SeqSpace) = At(base, x) + d
  <1> DEFINE y == (x + d) % SeqSpace
             a == At(base, x)
  <1>1. x \in Int /\ base \in Int /\ a \in Nat /\ SeqSpace \in Nat \ {0} /\ x + d \in Int
    BY SpaceType, AtType DEF SeqNum
  <1>2. y \in 0 .. SeqSpace - 1
    BY <1>1, ModRange
  <1>3. PICK q1 \in Int : x - base = (SeqSpace * q1) + a
    <2>1. x - base \in Int
      BY <1>1
    <2> QED BY <2>1, <1>1, ModRange DEF At
  <1>4. PICK q2 \in Int : x + d = (SeqSpace * q2) + y
    BY <1>1, ModRange
  <1> HIDE DEF y
  <1>5. y - base = (SeqSpace * (q1 - q2)) + (a + d)
    <2> DEFINE m1 == SeqSpace * q1
               m2 == SeqSpace * q2
    <2>1. SeqSpace * (q1 - q2) = m1 - m2 /\ m1 \in Int /\ m2 \in Int
      BY <1>1
    <2>2. x - base = m1 + a /\ x + d = m2 + y
      BY <1>3, <1>4
    <2> HIDE DEF m1, m2, a
    <2> QED BY <2>1, <2>2, <1>1, <1>2
  <1>6. q1 - q2 \in Int /\ a + d \in 0 .. SeqSpace - 1
    OBVIOUS
  <1>7. (y - base) % SeqSpace = a + d
    <2> HIDE DEF a
    <2> QED BY <1>1, <1>5, <1>6, ModUnique
  <1> QED BY <1>2, <1>7 DEF y, At, SeqNum

\* In one half of the space distances are differences of places.
LEMMA AtDistance ==
  ASSUME NEW base \in SeqNum, NEW x \in SeqNum, NEW y \in SeqNum,
         At(base, x) < Half, At(base, y) < Half
  PROVE  Distance(x, y) = At(base, y) - At(base, x)
  <1> DEFINE a == At(base, x)
             b == At(base, y)
             d == b - a
  <1>1. a \in Nat /\ b \in Nat /\ a < Half /\ b < Half /\ Half \in Nat /\ SeqSpace = 2 * Half
        /\ x \in Int /\ y \in Int /\ base \in Int /\ SeqSpace \in Nat \ {0}
    BY AtType, SpaceType DEF SeqNum
  <1>2. PICK q1 \in Int : x - base = (SeqSpace * q1) + a
    <2>1. x - base \in Int
      BY <1>1
    <2> QED BY <2>1, <1>1, ModRange DEF At
  <1>3. PICK q2 \in Int : y - base = (SeqSpace * q2) + b
    <2>1. y - base \in Int
      BY <1>1
    <2> QED BY <2>1, <1>1, ModRange DEF At
  <1> HIDE DEF a, b
  <1>4. y - x + Half = (SeqSpace * (q2 - q1)) + (b - a + Half)
    <2> DEFINE m1 == SeqSpace * q1
               m2 == SeqSpace * q2
    <2>1. SeqSpace * (q2 - q1) = m2 - m1 /\ m1 \in Int /\ m2 \in Int
      BY <1>1
    <2>2. x - base = m1 + a /\ y - base = m2 + b
      BY <1>2, <1>3
    <2> HIDE DEF m1, m2
    <2> QED BY <2>1, <2>2, <1>1
  <1>5. b - a + Half \in 0 .. SeqSpace - 1 /\ q2 - q1 \in Int
    BY <1>1
  <1>6. (y - x + Half) % SeqSpace = b - a + Half
    BY <1>1, <1>4, <1>5, ModUnique
  <1> QED BY <1>1, <1>6 DEF Distance, a, b

\* The positions of a piece, seen from a number of the window.
LEMMA SpanPlaces ==
  ASSUME NEW base \in SeqNum, NEW ref \in SeqNum, At(base, ref) < Half, NEW p, Within(base, p)
  PROVE  /\ Span(p, ref) = At(base, p.seq) - At(base, ref) .. At(base, p.seq) - At(base, ref) + p.len - 1
         /\ At(base, p.seq) \in Nat /\ p.len \in Nat \ {0} /\ At(base, ref) \in Nat
         /\ p.seq \in SeqNum /\ At(base, p.seq) < Half
  <1>1. p.seq \in SeqNum /\ p.len \in 1 .. Half - 1
    BY DEF Within, Pieces
  <1>2. At(base, p.seq) \in Nat /\ At(base, ref) \in Nat /\ Half \in Nat
    BY <1>1, AtType, SpaceType
  <1>3. At(base, p.seq) < Half
    BY <1>1, <1>2 DEF Within
  <1>4. Distance(ref, p.seq) = At(base, p.seq) - At(base, ref)
    BY <1>1, <1>3, AtDistance
  <1> QED BY <1>1, <1>2, <1>3, <1>4, SpaceType DEF Span

-----------------------------------------------------------------------------
(* Cutting pieces                                                           *)

\* Each number of a bounded set lies in a longest run of it.
LEMMA RunAround ==
  ASSUME NEW lo \in Int, NEW hi \in Int, NEW left \in SUBSET (lo .. hi), NEW y \in left
  PROVE  \E a \in left, b \in left :
           /\ a <= y /\ y <= b /\ a .. b \subseteq left /\ a - 1 \notin left /\ b + 1 \notin left
  <1>0. y \in Int /\ lo <= y /\ y <= hi
    OBVIOUS
  <1>1. PICK a \in left : a <= y /\ a .. y \subseteq left /\ a - 1 \notin left
    <2> DEFINE T == {k \in 0 .. y - lo : lo + k .. y \subseteq left}
    <2>1. y - lo \in T
      BY <1>0
    <2>2. PICK m \in T : \A k \in T : m <= k
      <3>0. \A k \in T : k \in Nat
        BY <1>0
      <3>1. T \in SUBSET Nat /\ T # {}
        <4> HIDE DEF T
        <4> QED BY <2>1, <3>0
      <3> HIDE DEF T
      <3> QED BY <3>1, LeastNumber
    <2>3. m \in Nat /\ lo + m <= y /\ lo + m .. y \subseteq left /\ lo + m \in lo + m .. y
      BY <1>0, <2>2
    <2>4. ASSUME lo + m - 1 \in left PROVE FALSE
      <3>1. lo + m - 1 \in Int /\ lo <= lo + m - 1
        BY <2>4
      <3>2. m - 1 \in 0 .. y - lo
        BY <1>0, <2>3, <3>1
      <3>3. ASSUME NEW z \in lo + (m - 1) .. y PROVE z \in left
        BY <1>0, <2>3, <2>4
      <3>4. m - 1 \in T
        BY <3>2, <3>3
      <3>5. m <= m - 1
        BY <2>2, <3>4
      <3> QED BY <2>3, <3>5
    <2> QED BY <2>3, <2>4
  <1>2. PICK b \in left : y <= b /\ y .. b \subseteq left /\ b + 1 \notin left
    <2> DEFINE T == {k \in 0 .. hi - y : y .. hi - k \subseteq left}
    <2>1. hi - y \in T
      BY <1>0
    <2>2. PICK m \in T : \A k \in T : m <= k
      <3>0. \A k \in T : k \in Nat
        BY <1>0
      <3>1. T \in SUBSET Nat /\ T # {}
        <4> HIDE DEF T
        <4> QED BY <2>1, <3>0
      <3> HIDE DEF T
      <3> QED BY <3>1, LeastNumber
    <2>3. m \in Nat /\ y <= hi - m /\ y .. hi - m \subseteq left /\ hi - m \in y .. hi - m
      BY <1>0, <2>2
    <2>4. ASSUME hi - m + 1 \in left PROVE FALSE
      <3>1. hi - m + 1 \in Int /\ hi - m + 1 <= hi
        BY <2>4
      <3>2. m - 1 \in 0 .. hi - y
        BY <1>0, <2>3, <3>1
      <3>3. ASSUME NEW z \in y .. hi - (m - 1) PROVE z \in left
        BY <1>0, <2>3, <2>4
      <3>4. m - 1 \in T
        BY <3>2, <3>3
      <3>5. m <= m - 1
        BY <2>2, <3>4
      <3> QED BY <2>3, <3>5
    <2> QED BY <2>3, <2>4
  <1>3. a .. b \subseteq left
    <2> SUFFICES ASSUME NEW z \in a .. b PROVE z \in left
      OBVIOUS
    <2> a \in Int /\ b \in Int /\ z \in Int
      OBVIOUS
    <2> QED BY <1>0, <1>1, <1>2
  <1> QED BY <1>1, <1>2, <1>3

\* Two runs that cannot be longer are the same or apart.
LEMMA RunsApart ==
  ASSUME NEW left \in SUBSET Int, NEW a \in left, NEW b \in left, NEW c \in left, NEW d \in left,
         a .. b \subseteq left, a - 1 \notin left, b + 1 \notin left,
         c .. d \subseteq left, c - 1 \notin left, d + 1 \notin left,
         NEW x \in Int, x \in a .. b, x \in c .. d
  PROVE  a = c /\ b = d
  <1>0. a \in Int /\ b \in Int /\ c \in Int /\ d \in Int /\ a <= x /\ x <= b /\ c <= x /\ x <= d
    OBVIOUS
  <1>1. ~ (a < c)
    <2> SUFFICES ASSUME a < c PROVE FALSE
      OBVIOUS
    <2> c - 1 \in a .. b
      BY <1>0
    <2> QED OBVIOUS
  <1>2. ~ (c < a)
    <2> SUFFICES ASSUME c < a PROVE FALSE
      OBVIOUS
    <2> a - 1 \in c .. d
      BY <1>0
    <2> QED OBVIOUS
  <1>3. ~ (b < d)
    <2> SUFFICES ASSUME b < d PROVE FALSE
      OBVIOUS
    <2> b + 1 \in c .. d
      BY <1>0
    <2> QED OBVIOUS
  <1>4. ~ (d < b)
    <2> SUFFICES ASSUME d < b PROVE FALSE
      OBVIOUS
    <2> d + 1 \in a .. b
      BY <1>0
    <2> QED OBVIOUS
  <1> QED BY <1>0, <1>1, <1>2, <1>3, <1>4

\* What is left of a piece covers exactly the places outside the cut, once each.
LEMMA SubtractPlaces ==
  ASSUME NEW base \in SeqNum, NEW ref \in SeqNum, At(base, ref) < Half,
         NEW f \in Seq(Inputs), NEW p, CutFrom(p, f), Within(base, p), NEW cut
  PROVE  /\ \A q \in Subtract(p, ref, cut) :
              /\ CutFrom(q, f) /\ Within(base, q) /\ q.feed = p.feed
              /\ \A x \in Cells(base, q) : x \in Cells(base, p) /\ x - At(base, ref) \notin cut
         /\ \A x \in Cells(base, p) : x - At(base, ref) \notin cut =>
              \E q \in Subtract(p, ref, cut) : x \in Cells(base, q)
         /\ \A q1, q2 \in Subtract(p, ref, cut) : q1 # q2 =>
              Cells(base, q1) \cap Cells(base, q2) = {}
  <1> DEFINE r    == At(base, ref)
             s    == At(base, p.seq)
             left == Span(p, ref) \ cut
             Longest(a, b) == /\ a \in left /\ b \in left /\ a <= b /\ a .. b \subseteq left
                              /\ a - 1 \notin left /\ b + 1 \notin left
             Part(a, b) == [p EXCEPT !.seq = (ref + a) % SeqSpace, !.len = b - a + 1,
                                     !.off = p.off + a - Distance(ref, p.seq)]
  <1>1. /\ Span(p, ref) = s - r .. s - r + p.len - 1 /\ s \in Nat /\ p.len \in Nat \ {0} /\ r \in Nat
        /\ s + p.len < Half /\ r < Half /\ Half \in Nat /\ SeqSpace = 2 * Half
    BY SpanPlaces, SpaceType DEF Within
  <1>2. left \in SUBSET (s - r .. s - r + p.len - 1) /\ left \subseteq Int
    BY <1>1
  <1>3. /\ \A q \in Subtract(p, ref, cut) : \E a, b \in left : Longest(a, b) /\ q = Part(a, b)
        /\ \A a, b \in left : Longest(a, b) => Part(a, b) \in Subtract(p, ref, cut)
    <2>1. Subtract(p, ref, cut) =
            {Part(w[1], w[2]) : w \in {v \in left \X left : Longest(v[1], v[2])}}
      BY DEF Subtract
    <2> HIDE DEF left, Part
    <2>2. ASSUME NEW q \in Subtract(p, ref, cut)
          PROVE  \E a, b \in left : Longest(a, b) /\ q = Part(a, b)
      <3>1. PICK v \in left \X left : Longest(v[1], v[2]) /\ q = Part(v[1], v[2])
        BY <2>1
      <3> QED BY <3>1
    <2>3. ASSUME NEW a \in left, NEW b \in left, Longest(a, b)
          PROVE  Part(a, b) \in Subtract(p, ref, cut)
      <3> DEFINE w == <<a, b>>
      <3>1. w \in left \X left /\ w[1] = a /\ w[2] = b
        OBVIOUS
      <3> HIDE DEF w
      <3> QED BY <2>1, <2>3, <3>1
    <2> QED BY <2>2, <2>3
  <1>4. p \in Pieces
    BY DEF Within
  <1>5. ASSUME NEW a \in left, NEW b \in left, Longest(a, b)
        PROVE  /\ Cells(base, Part(a, b)) = r + a .. r + b
               /\ Part(a, b).feed = p.feed /\ At(base, Part(a, b).seq) + Part(a, b).len < Half
    <2>1. a \in Int /\ b \in Int /\ s - r <= a /\ a <= b /\ b <= s - r + p.len - 1
      BY <1>1, <1>2, <1>5
    <2>2. /\ Part(a, b).seq = (ref + a) % SeqSpace /\ Part(a, b).len = b - a + 1
          /\ Part(a, b).feed = p.feed
      BY <1>4 DEF Pieces
    <2> HIDE DEF Part, left, s
    <2>3. r + a \in 0 .. SeqSpace - 1
      BY <1>1, <2>1
    <2>4. At(base, (ref + a) % SeqSpace) = r + a
      BY <2>1, <2>3, AtShift
    <2> HIDE DEF r
    <2>5. Cells(base, Part(a, b)) = r + a .. r + a + (b - a + 1) - 1
      BY <2>2, <2>4 DEF Cells
    <2> QED BY <1>1, <2>1, <2>2, <2>4, <2>5
  <1>6. Cells(base, p) = s .. s + p.len - 1
    BY DEF Cells
  <1> HIDE DEF Part
  <1>7. ASSUME NEW q \in Subtract(p, ref, cut)
        PROVE  /\ CutFrom(q, f) /\ Within(base, q) /\ q.feed = p.feed
               /\ \A x \in Cells(base, q) : x \in Cells(base, p) /\ x - r \notin cut
    <2>1. CutFrom(q, f)
      BY SubtractCuts
    <2>2. PICK a \in left, b \in left : Longest(a, b) /\ q = Part(a, b)
      BY <1>3
    <2>3. Within(base, q) /\ q.feed = p.feed
      BY <1>5, <2>1, <2>2 DEF Within, CutFrom
    <2>4. ASSUME NEW x \in Cells(base, q) PROVE x \in Cells(base, p) /\ x - r \notin cut
      <3>1. x \in r + a .. r + b /\ a \in Int /\ b \in Int
        BY <1>2, <1>5, <2>2
      <3>2. x - r \in a .. b
        BY <1>1, <3>1
      <3>3. x - r \in left
        BY <2>2, <3>2
      <3>4. x - r \in s - r .. s - r + p.len - 1 /\ x - r \notin cut
        BY <1>1, <3>3
      <3>5. x \in s .. s + p.len - 1
        <4> HIDE DEF s, r
        <4> QED BY <1>1, <3>1, <3>4
      <3> QED BY <1>6, <3>4, <3>5
    <2> QED BY <2>1, <2>3, <2>4
  <1>8. ASSUME NEW x \in Cells(base, p), x - r \notin cut
        PROVE  \E q \in Subtract(p, ref, cut) : x \in Cells(base, q)
    <2>1. x \in Int /\ s <= x /\ x <= s + p.len - 1
      BY <1>1, <1>6
    <2>2. x - r \in s - r .. s - r + p.len - 1
      <3> HIDE DEF s, r
      <3> QED BY <1>1, <2>1
    <2>3. x - r \in left
      BY <1>1, <1>8, <2>2
    <2> DEFINE lo == s - r
               hi == s - r + p.len - 1
    <2>4. lo \in Int /\ hi \in Int /\ left \in SUBSET (lo .. hi)
      BY <1>1, <1>2
    <2> HIDE DEF lo, hi, left
    <2>5. PICK a \in left, b \in left :
            /\ a <= x - r /\ x - r <= b /\ a .. b \subseteq left /\ a - 1 \notin left /\ b + 1 \notin left
      BY <2>3, <2>4, RunAround
    <2>6. a \in Int /\ b \in Int
      BY <1>2
    <2>7. a <= b
      BY <1>1, <2>1, <2>5, <2>6
    <2>8. Longest(a, b)
      BY <2>5, <2>7
    <2>9. Part(a, b) \in Subtract(p, ref, cut) /\ Cells(base, Part(a, b)) = r + a .. r + b
      BY <1>3, <1>5, <2>8
    <2>10. x \in r + a .. r + b
      BY <1>1, <2>1, <2>5, <2>6
    <2> QED BY <2>9, <2>10
  <1>9. ASSUME NEW q1 \in Subtract(p, ref, cut), NEW q2 \in Subtract(p, ref, cut),
               NEW x \in Cells(base, q1), x \in Cells(base, q2)
        PROVE  q1 = q2
    <2>1. PICK a \in left, b \in left : Longest(a, b) /\ q1 = Part(a, b)
      BY <1>3
    <2>2. PICK c \in left, d \in left : Longest(c, d) /\ q2 = Part(c, d)
      BY <1>3
    <2>3. x \in r + a .. r + b /\ x \in r + c .. r + d /\ a \in Int /\ b \in Int /\ c \in Int /\ d \in Int
      BY <1>2, <1>5, <1>9, <2>1, <2>2
    <2>4. x - r \in Int /\ x - r \in a .. b /\ x - r \in c .. d
      <3> HIDE DEF r, s
      <3> QED BY <1>1, <2>3
    <2>5. a = c /\ b = d
      <3>1. left \in SUBSET Int
        BY <1>2
      <3> HIDE DEF left
      <3> QED BY <2>1, <2>2, <2>4, <3>1, RunsApart
    <2> QED BY <2>1, <2>2, <2>5
  <1> HIDE DEF r
  <1>10. r = At(base, ref)
    BY DEF r
  <1>11. \A q1, q2 \in Subtract(p, ref, cut) : q1 # q2 => Cells(base, q1) \cap Cells(base, q2) = {}
    BY <1>9
  <1> QED BY <1>7, <1>8, <1>10, <1>11

\* Pieces of the window take finitely many places, all below its half.
LEMMA CellsFinite ==
  ASSUME NEW base \in SeqNum, NEW P, \A p \in P : Within(base, p)
  PROVE  /\ CellsOf(base, P) \subseteq 0 .. Half - 1
         /\ IsFiniteSet(CellsOf(base, P)) /\ Cardinality(CellsOf(base, P)) \in Nat
         /\ P \subseteq Pieces /\ IsFiniteSet(P) /\ Cardinality(P) \in Nat
  <1>1. CellsOf(base, P) \subseteq 0 .. Half - 1
    <2> SUFFICES ASSUME NEW p \in P, NEW x \in Cells(base, p) PROVE x \in 0 .. Half - 1
      BY DEF CellsOf
    <2>1. p \in Pieces /\ At(base, p.seq) + p.len < Half
      BY DEF Within
    <2>2. p.seq \in SeqNum /\ p.len \in Nat
      BY <2>1 DEF Pieces
    <2>3. At(base, p.seq) \in Nat
      BY <2>2, AtType
    <2>4. x \in At(base, p.seq) .. At(base, p.seq) + p.len - 1
      BY DEF Cells
    <2> QED BY <2>1, <2>2, <2>3, <2>4, SpaceType
  <1>2. IsFiniteSet(0 .. Half - 1)
    BY FS_Interval, SpaceType
  <1>3. IsFiniteSet(CellsOf(base, P))
    BY <1>1, <1>2, FS_Subset
  <1>4. P \in SUBSET Pieces
    BY DEF Within
  <1> QED BY <1>1, <1>3, <1>4, FS_CardinalityType, PendingFinite

\* A piece takes as many places as it has bytes.
LEMMA CellsOfOne ==
  ASSUME NEW base \in SeqNum, NEW p, Within(base, p)
  PROVE  /\ Cells(base, p) \subseteq 0 .. Half - 1 /\ IsFiniteSet(Cells(base, p))
         /\ Cardinality(Cells(base, p)) = p.len /\ p.len \in Nat \ {0}
         /\ At(base, p.seq) \in Nat /\ At(base, p.seq) \in Cells(base, p)
  <1>1. p.seq \in SeqNum /\ p.len \in Nat \ {0} /\ At(base, p.seq) + p.len < Half
    BY DEF Within, Pieces
  <1>2. At(base, p.seq) \in Nat
    BY <1>1, AtType
  <1> DEFINE a == At(base, p.seq)
             b == At(base, p.seq) + p.len - 1
  <1>3. Cells(base, p) = a .. b
    BY DEF Cells
  <1>4. a \in Int /\ b \in Int /\ a <= b /\ b - a + 1 = p.len /\ b < Half /\ a \in Nat
    BY <1>1, <1>2, SpaceType
  <1> HIDE DEF a, b
  <1>5. IsFiniteSet(a .. b) /\ Cardinality(a .. b) = b - a + 1
    BY <1>4, FS_Interval
  <1>6. a .. b \subseteq 0 .. Half - 1 /\ a \in a .. b
    BY <1>4, SpaceType
  <1> QED BY <1>1, <1>3, <1>4, <1>5, <1>6 DEF a

\* Positions are places seen from another number, and there are as many of them.
LEMMA BytesPlaces ==
  ASSUME NEW base \in SeqNum, NEW P, \A p \in P : Within(base, p),
         NEW ref \in SeqNum, At(base, ref) < Half
  PROVE  /\ Positions(P, ref) = {x - At(base, ref) : x \in CellsOf(base, P)}
         /\ Bytes(P, ref) = Cardinality(CellsOf(base, P))
  <1> DEFINE r == At(base, ref)
             C == CellsOf(base, P)
             T == Positions(P, ref)
  <1>1. r \in Nat
    BY AtType
  <1>2. C \subseteq 0 .. Half - 1 /\ IsFiniteSet(C) /\ C \subseteq Int
    BY CellsFinite, SpaceType
  <1>3. ASSUME NEW p \in P, NEW x \in Int PROVE x \in Cells(base, p) <=> x - r \in Span(p, ref)
    <2> DEFINE s == At(base, p.seq)
    <2>1. /\ Span(p, ref) = s - r .. s - r + p.len - 1 /\ s \in Nat /\ p.len \in Nat
      BY SpanPlaces
    <2>2. Cells(base, p) = s .. s + p.len - 1
      BY DEF Cells
    <2> HIDE DEF s, r
    <2> QED BY <1>1, <2>1, <2>2
  <1>4. \A x \in C : x \in Int /\ x - r \in T
    <2> SUFFICES ASSUME NEW x \in C PROVE x \in Int /\ x - r \in T
      OBVIOUS
    <2>1. PICK p \in P : x \in Cells(base, p)
      BY DEF CellsOf
    <2>2. x \in Int
      BY <1>2
    <2> HIDE DEF r
    <2> QED BY <1>3, <2>1, <2>2 DEF Positions
  <1>5. \A y \in T : y \in Int /\ y + r \in C
    <2> SUFFICES ASSUME NEW y \in T PROVE y \in Int /\ y + r \in C
      OBVIOUS
    <2>1. PICK p \in P : y \in Span(p, ref)
      BY DEF Positions
    <2>2. y \in Int
      BY <1>1, <2>1, SpanPlaces
    <2> HIDE DEF r
    <2>3. y + r \in Int /\ (y + r) - r = y
      BY <1>1, <2>2
    <2> QED BY <1>3, <2>1, <2>2, <2>3 DEF CellsOf
  <1> HIDE DEF C, T, r
  <1>6. T = {x - r : x \in C}
    <2>1. \A y \in T : \E x \in C : y = x - r
      <3> TAKE y \in T
      <3>1. y + r \in C /\ y = (y + r) - r
        BY <1>1, <1>5
      <3> QED BY <3>1
    <2> QED BY <1>4, <2>1
  <1> DEFINE shift == [x \in C |-> x - r]
  <1>7. shift \in Surjection(C, T)
    <2>1. \A y \in T : \E x \in C : shift[x] = y
      BY <1>6
    <2>2. shift \in [C -> T]
      BY <1>4
    <2> QED BY <2>1, <2>2 DEF Surjection
  <1>8. shift \in Injection(C, T)
    <2>1. \A x, y \in C : shift[x] = shift[y] => x = y
      BY <1>1, <1>4
    <2>2. shift \in [C -> T]
      BY <1>4
    <2> QED BY <2>1, <2>2 DEF Injection, IsInjective
  <1> HIDE DEF shift
  <1>9. Cardinality(T) = Cardinality(C)
    BY <1>2, <1>7, <1>8, FS_Surjection
  <1> QED BY <1>6, <1>9 DEF Bytes, T, C, r

\* The pieces of P are cut from the segments f, in the window and apart.
Apart(base, P, f) ==
  /\ \A q \in P : CutFrom(q, f) /\ Within(base, q)
  /\ \A q, o \in P : q # o => Cells(base, q) \cap Cells(base, o) = {}

\* What insert_pending makes of the pieces P and a new one p: <<pieces, bytes counted>>.
Inserted(base, P, p, f, ins) ==
  /\ Apart(base, ins[1], f)
  /\ CellsOf(base, ins[1]) = CellsOf(base, P) \cup Cells(base, p)
  /\ \A q \in ins[1] : \E o \in P \cup {p} :
       q.feed = o.feed /\ Cells(base, q) \subseteq Cells(base, o)
  /\ ins[2] \in Nat /\ (ins[2] = 0 => ins[1] = P)
  /\ Policy = "FirstWins" =>
       /\ P \subseteq ins[1]
       /\ \A q \in ins[1] \ P : /\ q.feed = p.feed /\ Cells(base, q) \subseteq Cells(base, p)
                                /\ Cells(base, q) \cap CellsOf(base, P) = {}
       /\ Cardinality(CellsOf(base, ins[1])) = Cardinality(CellsOf(base, P)) + ins[2]
       /\ ins[2] <= p.len

\* insert_pending: the places covered grow by those of the new piece, pieces stay
\* apart, and each piece is a part of the new one or of one that was there.  The first
\* copy wins: what was buffered stays, and exactly the new bytes are counted.
LEMMA InsertPlaces ==
  ASSUME NEW base \in SeqNum, NEW ref \in SeqNum, At(base, ref) < Half,
         NEW f \in Seq(Inputs), NEW P, Apart(base, P, f),
         NEW p, CutFrom(p, f), Within(base, p)
  PROVE  Inserted(base, P, p, f, InsertPending(P, ref, p))
  <1> DEFINE ins  == InsertPending(P, ref, p)
             r    == At(base, ref)
             old  == CellsOf(base, P)
             kept == Subtract(p, ref, Positions(P, ref))
             cut(q) == Subtract(q, ref, Span(p, ref))
             others == UNION {cut(q) : q \in P}
  <1>5. /\ \A q \in P : CutFrom(q, f) /\ Within(base, q)
        /\ \A q, o \in P : q # o => Cells(base, q) \cap Cells(base, o) = {}
    BY DEF Apart
  <1>0. r \in Nat /\ old \subseteq Int /\ Cells(base, p) \subseteq Int
    <2>1. old \subseteq 0 .. Half - 1
      BY <1>5, CellsFinite
    <2>2. Cells(base, p) \subseteq 0 .. Half - 1
      BY CellsOfOne
    <2> QED BY <2>1, <2>2, AtType, SpaceType
  <1>1. \A x \in Int : x - r \in Positions(P, ref) <=> x \in old
    <2>1. Positions(P, ref) = {x - r : x \in old}
      BY <1>5, BytesPlaces
    <2> HIDE DEF r, old
    <2>2. ASSUME NEW x \in Int, x - r \in Positions(P, ref) PROVE x \in old
      <3>1. PICK y \in old : x - r = y - r
        BY <2>1, <2>2
      <3>2. y \in Int
        BY <1>0
      <3>3. x = y
        BY <3>1, <3>2, <1>0
      <3> QED BY <3>3
    <2> QED BY <2>1, <2>2
  <1>2. ASSUME NEW q \in P \cup {p}, NEW x \in Int
        PROVE  x - r \in Span(q, ref) <=> x \in Cells(base, q)
    <2> DEFINE s == At(base, q.seq)
    <2>1. Within(base, q)
      BY <1>5
    <2>2. /\ Span(q, ref) = s - r .. s - r + q.len - 1 /\ s \in Nat /\ q.len \in Nat
      BY <2>1, SpanPlaces
    <2>3. Cells(base, q) = s .. s + q.len - 1
      BY DEF Cells
    <2> HIDE DEF s, r
    <2> QED BY <1>0, <2>2, <2>3
  <1>3. CASE Policy = "FirstWins"
    <2>1. ins = <<P \cup kept, Bytes(kept, ref)>>
      BY <1>3 DEF InsertPending
    <2> HIDE DEF ins
    <2>2. /\ \A q \in kept : /\ CutFrom(q, f) /\ Within(base, q) /\ q.feed = p.feed
                             /\ \A x \in Cells(base, q) : x \in Cells(base, p) /\ x - r \notin Positions(P, ref)
          /\ \A x \in Cells(base, p) : x - r \notin Positions(P, ref) => \E q \in kept : x \in Cells(base, q)
          /\ \A q, o \in kept : q # o => Cells(base, q) \cap Cells(base, o) = {}
      BY SubtractPlaces
    <2> HIDE DEF kept, r
    <2>3. \A q \in kept : Cells(base, q) \subseteq Cells(base, p) /\ Cells(base, q) \cap old = {}
      BY <1>0, <1>1, <2>2
    <2>4. CellsOf(base, kept) = Cells(base, p) \ old
      <3>1. ASSUME NEW x \in Cells(base, p) \ old PROVE x \in CellsOf(base, kept)
        <4>1. \E q \in kept : x \in Cells(base, q)
          BY <1>0, <1>1, <2>2
        <4> QED BY <4>1 DEF CellsOf
      <3> QED BY <2>3, <3>1 DEF CellsOf
    <2>5. CellsOf(base, P \cup kept) = old \cup Cells(base, p)
      <3>1. CellsOf(base, P \cup kept) = CellsOf(base, P) \cup CellsOf(base, kept)
        BY DEF CellsOf
      <3> QED BY <2>4, <3>1
    <2>6. \A q, o \in P \cup kept : q # o => Cells(base, q) \cap Cells(base, o) = {}
      <3>1. ASSUME NEW q \in P, NEW o \in kept PROVE Cells(base, q) \cap Cells(base, o) = {}
        <4>1. Cells(base, q) \subseteq old
          BY DEF CellsOf
        <4> QED BY <2>3, <4>1
      <3> QED BY <1>5, <2>2, <3>1
    <2>7. \A q \in P \cup kept : \E o \in P \cup {p} : q.feed = o.feed /\ Cells(base, q) \subseteq Cells(base, o)
      BY <2>2, <2>3
    <2>8. Bytes(kept, ref) = Cardinality(Cells(base, p) \ old)
      BY <2>2, <2>4, BytesPlaces
    <2>9. /\ Cardinality(Cells(base, p) \ old) \in Nat
          /\ Cardinality(old \cup Cells(base, p)) = Cardinality(old) + Cardinality(Cells(base, p) \ old)
          /\ Cardinality(Cells(base, p) \ old) = 0 => Cells(base, p) \ old = {}
      <3> DEFINE new == Cells(base, p) \ old
      <3>1. IsFiniteSet(old) /\ IsFiniteSet(Cells(base, p))
        BY <1>5, CellsFinite, CellsOfOne
      <3>2. IsFiniteSet(new)
        BY <3>1, FS_Subset
      <3>3. old \cup Cells(base, p) = old \cup new /\ old \cap new = {}
        OBVIOUS
      <3> HIDE DEF new, old
      <3>4. Cardinality(old \cup new) = Cardinality(old) + Cardinality(new) - Cardinality(old \cap new)
        BY <3>1, <3>2, FS_Union
      <3>5. Cardinality(old) \in Nat /\ Cardinality(new) \in Nat /\ Cardinality({}) = 0
        BY <3>1, <3>2, FS_CardinalityType, FS_EmptySet
      <3>6. Cardinality(new) = 0 => new = {}
        BY <3>2, FS_EmptySet
      <3>7. Cardinality(old \cup new) = Cardinality(old) + Cardinality(new)
        <4>1. old \cap new = {}
          BY <3>3
        <4>2. Cardinality(old \cap new) = 0
          BY <3>5, <4>1
        <4> QED BY <3>4, <3>5, <4>2
      <3>8. old \cup Cells(base, p) = old \cup new
        BY <3>3 DEF new
      <3> QED BY <3>5, <3>6, <3>7, <3>8 DEF new
    <2>18. Cardinality(Cells(base, p) \ old) <= p.len
      <3> DEFINE C == Cells(base, p)
      <3>1. IsFiniteSet(C) /\ Cardinality(C) = p.len
        BY CellsOfOne
      <3>2. C \ old \in SUBSET C
        OBVIOUS
      <3> HIDE DEF C, old
      <3>3. Cardinality(C \ old) <= Cardinality(C)
        BY <3>1, <3>2, FS_Subset
      <3> QED BY <3>1, <3>3 DEF C
    <2>10. Cells(base, p) \ old = {} => kept = {}
      <3> SUFFICES ASSUME Cells(base, p) \ old = {}, NEW q \in kept PROVE FALSE
        OBVIOUS
      <3>1. At(base, q.seq) \in Cells(base, q)
        BY <2>2, CellsOfOne
      <3> QED BY <2>3, <3>1
    <2>11. ins[1] = P \cup kept /\ ins[2] = Cardinality(Cells(base, p) \ old)
      BY <2>1, <2>8
    <2>12. \A q \in kept : CutFrom(q, f) /\ Within(base, q) /\ q.feed = p.feed
      BY <2>2
    <2>13. \A q \in (P \cup kept) \ P : /\ q.feed = p.feed /\ Cells(base, q) \subseteq Cells(base, p)
                                         /\ Cells(base, q) \cap old = {}
      BY <2>3, <2>12
    <2>14. Cardinality(CellsOf(base, P \cup kept)) = Cardinality(old) + Cardinality(Cells(base, p) \ old)
      BY <2>5, <2>9
    <2>15. \A q \in P \cup kept : CutFrom(q, f) /\ Within(base, q)
      BY <1>5, <2>12
    <2>16. CellsOf(base, P \cup kept) = CellsOf(base, P) \cup Cells(base, p)
      BY <2>5
    <2>17. Cardinality(Cells(base, p) \ old) = 0 => P \cup kept = P
      BY <2>9, <2>10
    <2> QED BY ONLY <2>6, <2>7, <2>9, <2>11, <2>13, <2>14, <2>15, <2>16, <2>17, <2>18
               DEF ins, old, Inserted, Apart
  <1>4. CASE Policy # "FirstWins"
    <2>1. ins = <<others \cup {p}, p.len>>
      BY <1>4 DEF InsertPending
    <2> HIDE DEF ins
    <2>2. ASSUME NEW q \in P
          PROVE  /\ \A o \in cut(q) : /\ CutFrom(o, f) /\ Within(base, o) /\ o.feed = q.feed
                                      /\ \A x \in Cells(base, o) : x \in Cells(base, q) /\ x - r \notin Span(p, ref)
                 /\ \A x \in Cells(base, q) : x - r \notin Span(p, ref) => \E o \in cut(q) : x \in Cells(base, o)
                 /\ \A o, v \in cut(q) : o # v => Cells(base, o) \cap Cells(base, v) = {}
      BY <1>5, <2>2, SubtractPlaces
    <2>3. \A o \in others : \E q \in P : o \in cut(q)
      OBVIOUS
    <2>4. \A q \in P : cut(q) \subseteq others
      OBVIOUS
    <2> HIDE DEF r, cut, others
    <2>5. ASSUME NEW q \in P PROVE Cells(base, q) \subseteq old /\ Cells(base, q) \subseteq Int
      BY <1>0 DEF CellsOf
    <2>6. ASSUME NEW q \in P, NEW o \in cut(q)
          PROVE  Cells(base, o) \subseteq Cells(base, q) /\ Cells(base, o) \cap Cells(base, p) = {}
      BY <1>2, <2>2, <2>5
    <2>7. \A o \in others \cup {p} : CutFrom(o, f) /\ Within(base, o)
      BY <2>2, <2>3
    <2>8. \A o \in others \cup {p} : \E q \in P \cup {p} :
            o.feed = q.feed /\ Cells(base, o) \subseteq Cells(base, q)
      BY <2>2, <2>3, <2>6
    <2>9. \A o, v \in others \cup {p} : o # v => Cells(base, o) \cap Cells(base, v) = {}
      <3>1. ASSUME NEW o \in others, NEW v \in others, o # v
            PROVE  Cells(base, o) \cap Cells(base, v) = {}
        <4>1. PICK q1 \in P : o \in cut(q1)
          BY <2>3
        <4>2. PICK q2 \in P : v \in cut(q2)
          BY <2>3
        <4>3. CASE q1 = q2
          BY <3>1, <4>1, <4>2, <4>3, <2>2
        <4>4. CASE q1 # q2
          BY <1>5, <4>1, <4>2, <4>4, <2>6
        <4> QED BY <4>3, <4>4
      <3>2. ASSUME NEW o \in others PROVE Cells(base, o) \cap Cells(base, p) = {}
        BY <2>3, <2>6
      <3> QED BY <3>1, <3>2
    <2>10. CellsOf(base, others \cup {p}) = old \cup Cells(base, p)
      <3>1. ASSUME NEW x \in old, x \notin Cells(base, p) PROVE x \in CellsOf(base, others)
        <4>1. PICK q \in P : x \in Cells(base, q)
          BY DEF CellsOf
        <4>2. x - r \notin Span(p, ref)
          BY <1>0, <1>2, <3>1
        <4>3. PICK o \in cut(q) : x \in Cells(base, o)
          BY <2>2, <4>1, <4>2
        <4> QED BY <2>4, <4>3 DEF CellsOf
      <3>2. CellsOf(base, others) \subseteq old
        BY <2>3, <2>5, <2>6 DEF CellsOf
      <3>3. CellsOf(base, others \cup {p}) = CellsOf(base, others) \cup Cells(base, p)
        BY DEF CellsOf
      <3> QED BY <3>1, <3>2, <3>3
    <2>11. p.len \in Nat \ {0}
      BY CellsOfOne
    <2>12. ins[1] = others \cup {p} /\ ins[2] = p.len
      BY <2>1
    <2> QED BY ONLY <1>4, <2>7, <2>8, <2>9, <2>10, <2>11, <2>12 DEF ins, old, Inserted, Apart
  <1> QED BY <1>3, <1>4

-----------------------------------------------------------------------------
(* The calls, seen in the window                                            *)

\* What is cut from a segment that fits lies in the window, where the segment does.
LEMMA CutWithin ==
  ASSUME NEW base \in SeqNum, FitsFrom(base), NEW f \in Seq(Inputs), NEW p, CutFrom(p, f)
  PROVE  /\ Within(base, p) /\ Cells(base, p) \subseteq CarriedCells(base, f, p.feed)
         /\ At(base, p.seq) = At(base, f[p.feed].seq) + p.off
  <1> DEFINE seg == f[p.feed]
             a   == At(base, seg.seq)
  <1>1. /\ p \in Pieces /\ p.feed \in 1 .. Len(f) /\ (seg.seq + p.off) % SeqSpace = p.seq
        /\ p.off + p.len <= seg.len /\ seg \in Inputs
    BY DEF CutFrom
  <1>2. p.len \in 1 .. Half - 1 /\ p.off \in 0 .. Half - 1 /\ seg.seq \in SeqNum /\ seg.len \in 0 .. Half - 1
    BY <1>1, InputsAssumption DEF Pieces
  <1>3. seg.len > 0
    BY <1>1, <1>2, SpaceType
  <1>4. a + seg.len < Half /\ a \in Nat
    <2>1. ((seg.seq - base) % SeqSpace) + (IF seg.len = 0 THEN 1 ELSE seg.len) < Half
      BY <1>1, <1>3 DEF FitsFrom
    <2>2. seg.len # 0
      BY <1>2, <1>3
    <2> QED BY <1>2, <2>1, <2>2, AtType DEF At
  <1> HIDE DEF seg, a
  <1>5. a + p.off \in 0 .. SeqSpace - 1 /\ a + p.off + p.len < Half /\ p.off \in Int
    <2> DEFINE o == p.off
               n == p.len
               m == seg.len
    <2>1. o \in Nat /\ n \in Nat /\ m \in Nat /\ o + n <= m /\ a + m < Half /\ a \in Nat
          /\ Half \in Nat /\ SeqSpace = 2 * Half
      BY <1>1, <1>2, <1>4, SpaceType
    <2> HIDE DEF o, n, m
    <2>2. a + o \in 0 .. SeqSpace - 1 /\ a + o + n < Half /\ o \in Int
      BY <2>1
    <2> QED BY <2>2 DEF o, n
  <1>6. At(base, p.seq) = a + p.off
    BY <1>1, <1>2, <1>5, AtShift DEF a
  <1>7. Cells(base, p) \subseteq a .. a + seg.len - 1
    BY <1>1, <1>2, <1>4, <1>6 DEF Cells
  <1> QED BY <1>1, <1>5, <1>6, <1>7 DEF Within, CarriedCells, a, seg

\* Taking a piece out takes out its places.
LEMMA RemoveCells ==
  ASSUME NEW base \in SeqNum, NEW P, \A q \in P : Within(base, q),
         \A q, o \in P : q # o => Cells(base, q) \cap Cells(base, o) = {}, NEW p \in P
  PROVE  Cardinality(CellsOf(base, P \ {p})) = Cardinality(CellsOf(base, P)) - p.len
  <1> DEFINE A == CellsOf(base, P \ {p})
             B == Cells(base, p)
  <1>1. A \cup B = CellsOf(base, P) /\ A \cap B = {}
    BY DEF CellsOf
  <1>2. IsFiniteSet(A) /\ Cardinality(A) \in Nat
    BY CellsFinite
  <1>3. IsFiniteSet(B) /\ Cardinality(B) = p.len /\ p.len \in Nat
    BY CellsOfOne
  <1> HIDE DEF A, B
  <1>4. Cardinality(A \cup B) = Cardinality(A) + Cardinality(B) - Cardinality(A \cap B)
    BY <1>2, <1>3, FS_Union
  <1>5. Cardinality(A \cap B) = 0
    BY <1>1, FS_EmptySet
  <1>6. Cardinality(A \cup B) = Cardinality(A) + p.len
    BY <1>2, <1>3, <1>4, <1>5
  <1>7. A \cup B = CellsOf(base, P)
    BY <1>1
  <1>8. Cardinality(CellsOf(base, P)) = Cardinality(A) + p.len
    BY ONLY <1>6, <1>7, Zenon
  <1> QED BY <1>2, <1>3, <1>8 DEF A

\* The verdict, the flags, the account of what is ready are no part of it.
LEMMA NotedPlaced ==
  ASSUME NEW base, NEW f, NEW begin, NEW s, StreamPlaced(base, s, f, begin), NEW t \in Streams,
         t.next_seq = s.next_seq, t.delivered = s.delivered, t.pending = s.pending,
         t.evicted = s.evicted, t.pending_bytes = s.pending_bytes
  PROVE  StreamPlaced(base, t, f, begin)
  <1>1. StreamInv(t, f, begin)
    BY NotedInv DEF StreamPlaced
  <1>2. Handed(t) = Handed(s)
    BY DEF Handed
  <1> QED BY <1>1, <1>2 DEF StreamPlaced, Placed, Accounted, EarliestUsed

\* Going onward twice is going onward.
LEMMA OnwardTwice ==
  ASSUME NEW s, NEW t, NEW u, Len(s.delivered) \in Nat, Len(t.delivered) \in Nat,
         Len(u.delivered) \in Nat, Onward(s, t), Onward(t, u)
  PROVE  Onward(s, u)
  <1> DEFINE a == Len(s.delivered)
             b == Len(t.delivered)
             c == Len(u.delivered)
  <1>1. a \in Nat /\ b \in Nat /\ c \in Nat /\ a <= b /\ b <= c
    BY DEF Onward
  <1>2. \A i \in 1 .. a : i \in 1 .. b /\ u.delivered[i] = s.delivered[i]
    <2> TAKE i \in 1 .. a
    <2>1. i \in 1 .. b
      BY <1>1
    <2> QED BY <2>1 DEF Onward
  <1>3. \A i \in a + 1 .. b : i \in 1 .. b /\ i \in a + 1 .. c /\ u.delivered[i] = t.delivered[i]
    <2> TAKE i \in a + 1 .. b
    <2>1. i \in 1 .. b /\ i \in a + 1 .. c
      BY <1>1
    <2> QED BY <2>1 DEF Onward
  <1>4. \A i \in b + 1 .. c : i \in a + 1 .. c
    BY <1>1
  <1>5. s.pending \subseteq t.pending \cup (t.evicted \ s.evicted) \cup {t.delivered[i] : i \in a + 1 .. b}
    BY DEF Onward
  <1>6. t.pending \subseteq u.pending \cup (u.evicted \ t.evicted) \cup {u.delivered[i] : i \in b + 1 .. c}
    BY DEF Onward
  <1>7. s.evicted \subseteq t.evicted /\ t.evicted \subseteq u.evicted
    BY DEF Onward
  <1> HIDE DEF a, b, c
  <1>8. s.pending \subseteq u.pending \cup (u.evicted \ s.evicted) \cup {u.delivered[i] : i \in a + 1 .. c}
    <2> SUFFICES ASSUME NEW x \in s.pending, x \notin u.pending, x \notin u.evicted \ s.evicted
                 PROVE  \E i \in a + 1 .. c : x = u.delivered[i]
      OBVIOUS
    <2>1. x \in t.pending \/ \E i \in a + 1 .. b : x = t.delivered[i]
      BY <1>5, <1>7
    <2>2. CASE x \in t.pending
      BY <2>2, <1>4, <1>6, <1>7
    <2>3. CASE \E i \in a + 1 .. b : x = t.delivered[i]
      BY <2>3, <1>3
    <2> QED BY <2>1, <2>2, <2>3
  <1> QED BY <1>1, <1>2, <1>7, <1>8 DEF Onward, a, b, c

\* Dropping a buffered piece leaves everything in place.
LEMMA DropPlaced ==
  ASSUME NEW base \in SeqNum, FitsFrom(base), NEW f \in Seq(Inputs), NEW begin,
         NEW s, StreamPlaced(base, s, f, begin), NEW p \in s.pending,
         NEW t, t = [s EXCEPT !.pending = @ \ {p}, !.pending_bytes = SatSub(@, p.len),
                              !.evicted = @ \cup {p}]
  PROVE  StreamPlaced(base, t, f, begin) /\ Onward(s, t)
  <1>0. StreamInv(s, f, begin) /\ s \in Streams
    BY DEF StreamPlaced, StreamInv
  <1>1. StreamInv(t, f, begin)
    BY <1>0, DropInv
  <1>2. /\ t.pending = s.pending \ {p} /\ t.evicted = s.evicted \cup {p} /\ t.next_seq = s.next_seq
        /\ t.delivered = s.delivered /\ t.pending_bytes = SatSub(s.pending_bytes, p.len)
        /\ s.pending_bytes \in Nat /\ s.delivered \in Seq(Pieces)
    BY <1>0 DEF Streams
  <1>3. \A q \in s.pending \cup s.evicted : CutFrom(q, f) /\ Within(base, q)
    BY CutWithin DEF StreamPlaced, StreamInv, AllCut
  <1>4. Handed(t) = Handed(s)
    BY <1>2 DEF Handed
  <1>5. Placed(base, t, begin)
    BY <1>2, <1>4 DEF StreamPlaced, Placed
  <1>6. Accounted(base, t, f, begin)
    <2>1. t.pending \cup Handed(t) \cup t.evicted = s.pending \cup Handed(s) \cup s.evicted
      BY <1>2, <1>4
    <2> QED BY <1>2, <2>1 DEF StreamPlaced, Accounted
  <1>7. EarliestUsed(base, t, f)
    BY <1>2, <1>4 DEF StreamPlaced, EarliestUsed
  <1>8. ASSUME Policy = "FirstWins"
        PROVE  t.pending_bytes <= Cardinality(CellsOf(base, t.pending))
    <2>1. Cardinality(CellsOf(base, s.pending \ {p})) = Cardinality(CellsOf(base, s.pending)) - p.len
      BY <1>3, RemoveCells DEF StreamPlaced, Placed
    <2>2. Cardinality(CellsOf(base, s.pending \ {p})) \in Nat
      <3>1. \A q \in s.pending \ {p} : Within(base, q)
        BY <1>3
      <3> QED BY <3>1, CellsFinite
    <2>3. Cardinality(CellsOf(base, s.pending)) \in Nat /\ p.len \in Nat
      BY <1>3, CellsFinite, CellsOfOne
    <2>4. s.pending_bytes <= Cardinality(CellsOf(base, s.pending))
      BY <1>8 DEF StreamPlaced
    <2> DEFINE c == Cardinality(CellsOf(base, s.pending))
               d == Cardinality(CellsOf(base, s.pending \ {p}))
    <2>5. SatSub(s.pending_bytes, p.len) <= d
      <3>1. c \in Nat /\ d \in Nat /\ d = c - p.len /\ s.pending_bytes <= c /\ s.pending_bytes \in Nat
            /\ p.len \in Nat
        BY <1>2, <2>1, <2>2, <2>3, <2>4
      <3> HIDE DEF c, d
      <3> QED BY <3>1 DEF SatSub
    <2> QED BY <1>2, <2>5
  <1>9. Onward(s, t)
    <2>1. p \notin s.evicted
      <3> SUFFICES ASSUME p \in s.evicted PROVE FALSE
        OBVIOUS
      <3>1. Cells(base, p) \cap Cells(base, p) = {}
        BY DEF StreamPlaced, Placed
      <3> QED BY <1>3, <3>1, CellsOfOne
    <2>2. Len(s.delivered) \in Nat
      BY <1>2
    <2> QED BY <1>2, <2>1, <2>2 DEF Onward
  <1>10. \A e \in t.evicted : CutFrom(e, f)
    BY <1>2, <1>3
  <1> QED BY <1>1, <1>5, <1>6, <1>7, <1>8, <1>9, <1>10 DEF StreamPlaced

\* So does enforcing the budget.
LEMMA EnforcePlaced ==
  ASSUME NEW base \in SeqNum, FitsFrom(base), NEW f \in Seq(Inputs), NEW begin,
         NEW s, StreamPlaced(base, s, f, begin), NEW ref \in SeqNum
  PROVE  StreamPlaced(base, EnforceBudget(s, ref), f, begin) /\ Onward(s, EnforceBudget(s, ref))
  <1> DEFINE N == Cardinality(s.pending)
             Good(t) == StreamPlaced(base, t, f, begin) /\ Onward(s, t)
  <1>0. \A t : StreamPlaced(base, t, f, begin) =>
          /\ t \in Streams /\ t.pending \in SUBSET Pieces /\ t.delivered \in Seq(Pieces)
          /\ Len(t.delivered) \in Nat
    BY DEF StreamPlaced, StreamInv, Streams
  <1>1. N \in Nat
    BY <1>0, PendingFinite
  <1>2. ASSUME NEW t, Good(t) PROVE Good(Dropped(t, ref))
    <2>1. t \in Streams /\ t.pending \in SUBSET Pieces
      BY <1>0, <1>2
    <2>2. CASE Dropped(t, ref) = t
      BY <1>2, <2>2
    <2>3. CASE Dropped(t, ref) # t
      <3> DEFINE p == FrontPiece(t.pending, ref)
                 u == [t EXCEPT !.pending = @ \ {p}, !.pending_bytes = SatSub(@, p.len),
                                !.evicted = @ \cup {p}]
      <3>1. t.pending # {} /\ Dropped(t, ref) = u
        BY <2>3 DEF Dropped
      <3>2. p \in t.pending
        BY <2>1, <3>1, FrontPieceType
      <3>3. StreamPlaced(base, u, f, begin) /\ Onward(t, u)
        <4> HIDE DEF p
        <4> QED BY <1>2, <3>2, DropPlaced
      <3> HIDE DEF u
      <3>4. Onward(s, u)
        BY <1>0, <1>2, <3>3, OnwardTwice
      <3> QED BY <3>1, <3>3, <3>4
    <2> QED BY <2>2, <2>3
  <1>3. PICK g : /\ g[0] = s /\ \A n \in 1 .. N : g[n] = Dropped(g[n - 1], ref)
                 /\ EnforceBudget(s, ref) = g[N]
    BY <1>1, EnforceRounds
  <1> DEFINE S == {n \in 0 .. N : Good(g[n])}
  <1>4. 0 \in S
    <2>1. Onward(s, s)
      BY <1>0 DEF Onward
    <2> QED BY <1>1, <1>3, <2>1
  <1> HIDE DEF N, Good
  <1>5. ASSUME NEW n \in 0 .. N - 1, n \in S PROVE n + 1 \in S
    <2>1. n + 1 \in 1 .. N /\ n + 1 \in 0 .. N /\ (n + 1) - 1 = n
      BY <1>1
    <2>2. g[n + 1] = Dropped(g[n], ref)
      BY <1>3, <2>1
    <2> QED BY <1>2, <1>5, <2>1, <2>2
  <1>6. N \in S
    <2> HIDE DEF S
    <2>1. 0 .. N \subseteq S
      BY <1>1, <1>4, <1>5, CountUp
    <2> QED BY <1>1, <2>1
  <1> QED BY <1>3, <1>6 DEF Good

\* Handing out the piece at the expected byte moves the expected byte behind it.
LEMMA MoveFrontPlaced ==
  ASSUME NEW base \in SeqNum, FitsFrom(base), NEW f \in Seq(Inputs), NEW begin,
         NEW s, StreamPlaced(base, s, f, begin)
  PROVE  /\ StreamPlaced(base, MoveFront(s), f, begin) /\ Onward(s, MoveFront(s))
         /\ Settled(s) => MoveFront(s) = s
         /\ ~ Settled(s) => Cardinality(MoveFront(s).pending) = Cardinality(s.pending) - 1
         /\ MoveFront(s).evicted = s.evicted /\ MoveFront(s).overflow = s.overflow
  <1> DEFINE hit == {p \in s.pending : p.seq = s.next_seq}
             p == CHOOSE p \in hit : TRUE
             t == [s EXCEPT !.pending = @ \ {p}, !.pending_bytes = SatSub(@, p.len),
                            !.next_seq = (@ + p.len) % SeqSpace,
                            !.ready = @ + p.len, !.delivered = Append(@, p)]
  <1>0. StreamInv(s, f, begin) /\ s \in Streams
    BY DEF StreamPlaced, StreamInv
  <1>1. MoveFront(s) = IF hit = {} THEN s ELSE t
    BY DEF MoveFront
  <1>2. Settled(s) <=> hit = {}
    BY DEF Settled
  <1>3. CASE hit = {}
    <2>1. Onward(s, s)
      BY <1>0 DEF Onward, Streams
    <2> HIDE DEF hit, t
    <2> QED BY <1>1, <1>2, <1>3, <2>1
  <1>4. CASE hit # {}
    <2>1. p \in s.pending /\ p.seq = s.next_seq
      BY <1>4
    <2>2. MoveFront(s) = t /\ ~ Settled(s)
      BY <1>1, <1>2, <1>4
    <2>3. StreamInv(t, f, begin)
      BY <1>0, <2>2, MoveFrontInv
    <2> HIDE DEF hit, p
    <2>4. /\ t.pending = s.pending \ {p} /\ t.evicted = s.evicted
          /\ t.next_seq = (s.next_seq + p.len) % SeqSpace /\ t.overflow = s.overflow
          /\ t.delivered = Append(s.delivered, p) /\ t.pending_bytes = SatSub(s.pending_bytes, p.len)
          /\ s.pending_bytes \in Nat /\ s.delivered \in Seq(Pieces) /\ s.pending \subseteq Pieces
      BY <1>0 DEF Streams
    <2> HIDE DEF t
    <2>5. \A q \in s.pending \cup s.evicted : CutFrom(q, f) /\ Within(base, q)
      BY CutWithin DEF StreamPlaced, StreamInv, AllCut
    <2>6. p \in Pieces
      BY <2>1, <2>4
    <2>7. /\ Len(s.delivered) \in Nat /\ Len(t.delivered) = Len(s.delivered) + 1
          /\ t.delivered[Len(s.delivered) + 1] = p
          /\ \A i \in 1 .. Len(s.delivered) : t.delivered[i] = s.delivered[i]
      BY <2>4, <2>6
    <2>8. Handed(t) = Handed(s) \cup {p}
      <3> DEFINE n == Len(s.delivered)
      <3>1. n \in Nat /\ Len(t.delivered) = n + 1 /\ 1 .. n + 1 = 1 .. n \cup {n + 1}
        BY <2>7
      <3>2. \A i \in 1 .. n : t.delivered[i] = s.delivered[i]
        BY <2>7
      <3>3. t.delivered[n + 1] = p
        BY <2>7
      <3>4. Handed(s) = {s.delivered[i] : i \in 1 .. n}
        BY DEF Handed
      <3> HIDE DEF n
      <3>5. Handed(t) = {t.delivered[i] : i \in 1 .. n \cup {n + 1}}
        BY <3>1 DEF Handed
      <3> QED BY <3>2, <3>3, <3>4, <3>5
    <2>9. s.next_seq # NoSeq /\ s.next_seq \in SeqNum
      BY <2>1, <2>6, SpaceType DEF Pieces
    <2> DEFINE a == At(base, s.next_seq)
               b == At(base, begin)
    <2>10. /\ begin \in SeqNum /\ a < Half /\ b <= a /\ CellsOf(base, Handed(s)) = b .. a - 1
           /\ \A q \in s.pending : a <= At(base, q.seq)
      BY <2>9 DEF StreamPlaced, Placed
    <2>11. a \in Nat /\ b \in Nat /\ p.len \in Nat \ {0} /\ a + p.len < Half /\ Half \in Nat
      <3>1. a \in Nat /\ b \in Nat
        BY <2>9, <2>10, AtType
      <3>2. p.len \in Nat \ {0}
        BY <2>6 DEF Pieces
      <3>3. a + p.len < Half
        BY <2>1, <2>5 DEF Within
      <3> QED BY <3>1, <3>2, <3>3, SpaceType
    <2>12. At(base, t.next_seq) = a + p.len
      <3>1. a + p.len \in 0 .. SeqSpace - 1 /\ p.len \in Int
        BY <2>11, SpaceType
      <3> QED BY <2>4, <2>9, <3>1, AtShift
    <2>13. Cells(base, p) = a .. a + p.len - 1
      BY <2>1 DEF Cells
    <2>14. t.next_seq # NoSeq
      BY <2>2, <2>9, <1>0, MoveFrontInv
    <2> HIDE DEF a, b
    <2>15. CellsOf(base, Handed(t)) = b .. At(base, t.next_seq) - 1
      <3>1. CellsOf(base, Handed(t)) = CellsOf(base, Handed(s)) \cup Cells(base, p)
        BY <2>8 DEF CellsOf
      <3>2. b .. a + p.len - 1 = (b .. a - 1) \cup (a .. a + p.len - 1)
        BY <2>10, <2>11
      <3>3. CellsOf(base, Handed(t)) = b .. a + p.len - 1
        BY <3>1, <3>2, <2>10, <2>13
      <3>4. a + p.len - 1 = At(base, t.next_seq) - 1
        BY <2>11, <2>12
      <3> QED BY <3>3, <3>4
    <2>16. \A q \in t.pending : At(base, t.next_seq) <= At(base, q.seq)
      <3> TAKE q \in t.pending
      <3>1. q \in s.pending /\ q # p /\ Within(base, q)
        BY <2>4, <2>5
      <3>2. At(base, q.seq) \in Cells(base, q) /\ At(base, q.seq) \in Nat
        BY <3>1, CellsOfOne
      <3>3. At(base, q.seq) \notin Cells(base, p)
        BY <2>1, <3>1, <3>2 DEF StreamPlaced, Placed
      <3> QED BY <2>10, <2>11, <2>12, <2>13, <3>1, <3>2, <3>3
    <2>17. Placed(base, t, begin)
      <3>1. \A q, o \in t.pending : q # o => Cells(base, q) \cap Cells(base, o) = {}
        BY <2>4 DEF StreamPlaced, Placed
      <3>2. \A q \in t.pending, e \in t.evicted : q.feed = e.feed => Cells(base, q) \cap Cells(base, e) = {}
        BY <2>4 DEF StreamPlaced, Placed
      <3>3. At(base, t.next_seq) < Half /\ b <= At(base, t.next_seq)
        BY <2>10, <2>11, <2>12
      <3> QED BY <2>10, <2>14, <2>15, <2>16, <3>1, <3>2, <3>3 DEF Placed, b
    <2>18. t.pending \cup Handed(t) = s.pending \cup Handed(s)
      BY <2>1, <2>4, <2>8
    <2>19. Accounted(base, t, f, begin)
      <3>1. t.pending \cup Handed(t) \cup t.evicted = s.pending \cup Handed(s) \cup s.evicted
        BY <2>4, <2>18
      <3> QED BY <2>9, <3>1 DEF StreamPlaced, Accounted
    <2>20. EarliestUsed(base, t, f)
      BY <2>4, <2>18 DEF StreamPlaced, EarliestUsed
    <2>21. ASSUME Policy = "FirstWins"
           PROVE  t.pending_bytes <= Cardinality(CellsOf(base, t.pending))
      <3> DEFINE c == Cardinality(CellsOf(base, s.pending))
                 d == Cardinality(CellsOf(base, s.pending \ {p}))
      <3>1. d = c - p.len
        BY <2>1, <2>5, RemoveCells DEF StreamPlaced, Placed
      <3>2. d \in Nat
        <4>1. \A q \in s.pending \ {p} : Within(base, q)
          BY <2>5
        <4> QED BY <4>1, CellsFinite
      <3>3. c \in Nat
        BY <2>5, CellsFinite
      <3>4. s.pending_bytes <= c
        BY <2>21 DEF StreamPlaced
      <3> HIDE DEF c, d
      <3>5. SatSub(s.pending_bytes, p.len) <= d
        BY <2>4, <2>11, <3>1, <3>2, <3>3, <3>4 DEF SatSub
      <3> QED BY <2>4, <3>5 DEF d
    <2>22. Onward(s, t)
      <3> DEFINE n == Len(s.delivered)
      <3>1. n + 1 \in n + 1 .. n + 1 /\ n <= n + 1
        BY <2>7
      <3>2. p \in {t.delivered[i] : i \in n + 1 .. n + 1}
        BY <2>7, <3>1
      <3> QED BY <2>4, <2>7, <3>1, <3>2 DEF Onward
    <2>23. Cardinality(t.pending) = Cardinality(s.pending) - 1
      <3>1. IsFiniteSet(s.pending)
        BY <2>4, PendingFinite
      <3> QED BY <2>1, <2>4, <3>1, FS_RemoveElement
    <2>24. \A e \in t.evicted : CutFrom(e, f)
      BY <2>4, <2>5
    <2>25. StreamPlaced(base, t, f, begin)
      BY <2>3, <2>17, <2>19, <2>20, <2>21, <2>24 DEF StreamPlaced
    <2> QED BY <2>2, <2>4, <2>22, <2>23, <2>25
  <1> QED BY <1>3, <1>4

\* advance hands out every piece that continues the stream.
LEMMA AdvancePlaced ==
  ASSUME NEW base \in SeqNum, FitsFrom(base), NEW f \in Seq(Inputs), NEW begin,
         NEW s, StreamPlaced(base, s, f, begin)
  PROVE  /\ StreamPlaced(base, Advance(s), f, begin) /\ Onward(s, Advance(s)) /\ Settled(Advance(s))
         /\ Advance(s).evicted = s.evicted /\ Advance(s).overflow = s.overflow
  <1> DEFINE N == Cardinality(s.pending)
             Good(t) == StreamPlaced(base, t, f, begin) /\ Onward(s, t)
                        /\ t.evicted = s.evicted /\ t.overflow = s.overflow
  <1>0. \A t : StreamPlaced(base, t, f, begin) =>
          /\ t \in Streams /\ t.pending \in SUBSET Pieces /\ t.delivered \in Seq(Pieces)
          /\ Len(t.delivered) \in Nat
    BY DEF StreamPlaced, StreamInv, Streams
  <1>1. N \in Nat
    BY <1>0, PendingFinite
  <1>2. ASSUME NEW t, Good(t) PROVE Good(MoveFront(t))
    <2>1. /\ StreamPlaced(base, MoveFront(t), f, begin) /\ Onward(t, MoveFront(t))
          /\ MoveFront(t).evicted = t.evicted /\ MoveFront(t).overflow = t.overflow
      BY <1>2, MoveFrontPlaced
    <2>2. Onward(s, MoveFront(t))
      BY <1>0, <1>2, <2>1, OnwardTwice
    <2> QED BY <1>2, <2>1, <2>2
  <1>3. PICK g : g[0] = s /\ (\A n \in 1 .. N : g[n] = MoveFront(g[n - 1])) /\ Advance(s) = g[N]
    BY <1>1, AdvanceRounds
  <1> DEFINE S == {n \in 0 .. N : Good(g[n]) /\ (Settled(g[n]) \/ Cardinality(g[n].pending) = N - n)}
  <1>4. 0 \in S
    <2>1. Onward(s, s)
      BY <1>0 DEF Onward
    <2> QED BY <1>1, <1>3, <2>1
  <1> HIDE DEF N
  <1>5. ASSUME NEW n \in 0 .. N - 1, n \in S PROVE n + 1 \in S
    <2>1. n + 1 \in 1 .. N /\ n + 1 \in 0 .. N /\ (n + 1) - 1 = n
      BY <1>1
    <2>2. g[n + 1] = MoveFront(g[n])
      BY <1>3, <2>1
    <2>3. Good(g[n]) /\ (Settled(g[n]) \/ Cardinality(g[n].pending) = N - n)
      BY <1>5
    <2>4. StreamPlaced(base, g[n], f, begin)
      BY <2>3
    <2>5. Good(g[n + 1])
      <3> HIDE DEF Good
      <3> QED BY <1>2, <2>2, <2>3
    <2>6. Settled(g[n + 1]) \/ Cardinality(g[n + 1].pending) = N - (n + 1)
      <3>1. CASE Settled(g[n])
        BY <3>1, <2>2, <2>4, MoveFrontPlaced
      <3>2. CASE ~ Settled(g[n])
        <4> DEFINE h == g[n]
        <4>1. StreamPlaced(base, h, f, begin) /\ ~ Settled(h)
          BY <3>2, <2>4
        <4> HIDE DEF h
        <4>2. Cardinality(MoveFront(h).pending) = Cardinality(h.pending) - 1
          BY <4>1, MoveFrontPlaced
        <4>3. Cardinality(g[n + 1].pending) = Cardinality(g[n].pending) - 1
          BY <2>2, <4>2 DEF h
        <4>4. Cardinality(g[n].pending) = N - n
          BY <3>2, <2>3
        <4> HIDE DEF Good
        <4> QED BY <4>3, <4>4, <1>1
      <3> QED BY <3>1, <3>2
    <2> QED BY <2>1, <2>5, <2>6
  <1>6. N \in S
    <2> HIDE DEF S
    <2>1. 0 .. N \subseteq S
      BY <1>1, <1>4, <1>5, CountUp
    <2> QED BY <1>1, <2>1
  <1>7. Good(g[N]) /\ (Settled(g[N]) \/ Cardinality(g[N].pending) = 0)
    BY <1>1, <1>6
  <1>8. Settled(g[N])
    <2> SUFFICES ASSUME Cardinality(g[N].pending) = 0 PROVE Settled(g[N])
      BY <1>7
    <2>1. g[N].pending = {}
      BY <1>0, <1>7, PendingFinite, FS_EmptySet
    <2> QED BY <2>1 DEF Settled
  <1> QED BY <1>3, <1>7, <1>8

-----------------------------------------------------------------------------
(* One segment, seen in the window                                          *)

\* What lies before the expected byte, in places.
LEMMA AheadPlaces ==
  ASSUME NEW base \in SeqNum, FitsFrom(base), NEW seg \in Inputs, seg.len > 0,
         NEW s, Expected(s, seg) \in SeqNum, At(base, Expected(s, seg)) < Half
  PROVE  /\ seg.seq \in SeqNum /\ seg.len \in Nat /\ At(base, seg.seq) \in Nat
         /\ At(base, Expected(s, seg)) \in Nat /\ At(base, seg.seq) + seg.len < Half
         /\ Ahead(s, seg) = IF At(base, Expected(s, seg)) > At(base, seg.seq)
                            THEN At(base, Expected(s, seg)) - At(base, seg.seq) ELSE 0
  <1> DEFINE n == Expected(s, seg)
             a == At(base, seg.seq)
             b == At(base, n)
  <1>1. seg.seq \in SeqNum /\ seg.len \in 0 .. Half - 1
    BY InputsAssumption
  <1>2. a \in Nat /\ b \in Nat
    BY <1>1, AtType
  <1>3. a + seg.len < Half
    <2>1. ((seg.seq - base) % SeqSpace) + (IF seg.len = 0 THEN 1 ELSE seg.len) < Half
      BY DEF FitsFrom
    <2>2. seg.len # 0
      OBVIOUS
    <2> QED BY <2>1, <2>2 DEF At
  <1>4. a < Half
    <2> HIDE DEF a
    <2> QED BY <1>1, <1>2, <1>3, SpaceType
  <1>5. Distance(seg.seq, n) = b - a
    BY <1>1, <1>4, AtDistance
  <1> HIDE DEF a, b, n
  <1>6. Ahead(s, seg) = IF b > a THEN b - a ELSE 0
    <2>1. Ahead(s, seg) = IF Distance(seg.seq, n) > 0 THEN Distance(seg.seq, n) ELSE 0
      BY DEF Ahead, n
    <2> QED BY <1>2, <1>5, <2>1
  <1> QED BY <1>1, <1>2, <1>3, <1>6 DEF a, b, n

\* Piece p is the part of segment `id` from place b on.
NewPlaces(base, p, f, id, b) ==
  /\ CutFrom(p, f) /\ Within(base, p) /\ p.feed = id /\ p.len \in Nat
  /\ b <= At(base, p.seq)
  /\ \A x \in CarriedCells(base, f, id) : b <= x => x \in Cells(base, p)
  /\ Cells(base, p) \subseteq CarriedCells(base, f, id)

\* The payload without its old bytes is a part of the segment, from the expected byte on.
LEMMA FedPiece ==
  ASSUME NEW base \in SeqNum, FitsFrom(base), NEW f \in Seq(Inputs), Len(f) <= MaxFeeds,
         NEW id \in 1 .. Len(f), f[id].len > 0, NEW s,
         Expected(s, f[id]) \in SeqNum, At(base, Expected(s, f[id])) < Half,
         Ahead(s, f[id]) < f[id].len
  PROVE  NewPlaces(base, NewPart(s, f[id], id), f, id, At(base, Expected(s, f[id])))
  <1> DEFINE seg == f[id]
             n   == Expected(s, seg)
             k   == Ahead(s, seg)
             a   == At(base, seg.seq)
             b   == At(base, n)
             m   == seg.len
             p   == NewPart(s, seg, id)
  <1>0. seg \in Inputs
    OBVIOUS
  <1>1. /\ seg.seq \in SeqNum /\ m \in Nat /\ a \in Nat /\ b \in Nat /\ a + m < Half
        /\ k = IF b > a THEN b - a ELSE 0
    BY <1>0, AheadPlaces
  <1>2. p.seq = (seg.seq + k) % SeqSpace /\ p.len = m - k /\ p.feed = id /\ p.off = k
    BY DEF NewPart
  <1>3. k < m
    OBVIOUS
  <1>9. p = [seq |-> p.seq, len |-> p.len, feed |-> p.feed, off |-> p.off]
    BY DEF NewPart
  <1>14. p = NewPart(s, f[id], id)
    OBVIOUS
  <1> HIDE DEF k, n, a, b, m, seg, p
  <1>4. k \in Nat /\ a + k \in 0 .. SeqSpace - 1 /\ k \in 0 .. Half - 1 /\ m - k \in 1 .. Half - 1
        /\ k + (m - k) = m
    <2>1. k \in Nat
      BY <1>1
    <2> QED BY ONLY <1>1, <1>3, <2>1, SpaceType
  <1>5. p.seq \in SeqNum /\ At(base, p.seq) = a + k
    BY <1>1, <1>2, <1>4, AtShift DEF a
  <1>6. CutFrom(p, f)
    <2>1. id \in 1 .. MaxFeeds
      BY InputsAssumption
    <2>2. p \in Pieces
      BY <1>2, <1>4, <1>5, <1>9, <2>1 DEF Pieces
    <2>3. p.off + p.len <= m
      BY <1>1, <1>2, <1>4
    <2> QED BY <1>2, <2>2, <2>3 DEF CutFrom, seg, m
  <1>7. Within(base, p) /\ Cells(base, p) \subseteq CarriedCells(base, f, id)
    BY <1>2, <1>6, CutWithin
  <1>8. Cells(base, p) = a + k .. a + k + (m - k) - 1
    BY <1>2, <1>5 DEF Cells
  <1>10. CarriedCells(base, f, id) = a .. a + m - 1
    BY DEF CarriedCells, a, m, seg
  <1>11. \A x \in CarriedCells(base, f, id) : b <= x => x \in Cells(base, p)
    BY <1>1, <1>4, <1>8, <1>10
  <1>12. b <= At(base, p.seq)
    BY <1>1, <1>5
  <1>13. b = At(base, Expected(s, f[id]))
    BY DEF b, n, seg
  <1> QED BY <1>2, <1>4, <1>6, <1>7, <1>11, <1>12, <1>13, <1>14 DEF NewPlaces

\* A stream that has not begun was fed no payload.
NothingYet(s, f) == s.next_seq = NoSeq => \A j \in 1 .. Len(f) : f[j].len = 0

\* What is handed out lies before the expected byte, in the places of the stream.
LEMMA ExpectedPlaced ==
  ASSUME NEW base \in SeqNum, FitsFrom(base), NEW g \in Seq(Inputs), NEW begin,
         NEW s, StreamPlaced(base, s, g, begin), NEW seg \in Inputs, seg.len > 0,
         s.next_seq = NoSeq => begin = seg.seq
  PROVE  LET n == Expected(s, seg)
         IN  /\ n \in SeqNum /\ n # NoSeq /\ begin \in SeqNum /\ At(base, n) < Half
             /\ At(base, n) \in Nat /\ At(base, begin) \in Nat
             /\ At(base, begin) <= At(base, n)
             /\ CellsOf(base, Handed(s)) = At(base, begin) .. At(base, n) - 1
             /\ \A q \in s.pending : At(base, n) <= At(base, q.seq)
  <1> DEFINE n == Expected(s, seg)
  <1>1. seg.seq \in SeqNum /\ seg.len \in 0 .. Half - 1 /\ s \in Streams
    BY InputsAssumption DEF StreamPlaced, StreamInv
  <1>2. n \in SeqNum /\ n # NoSeq
    BY <1>1, AheadType, SpaceType
  <1>3. CASE s.next_seq = NoSeq
    <2>1. n = seg.seq /\ begin = seg.seq
      BY <1>3 DEF Expected
    <2>2. ((seg.seq - base) % SeqSpace) + (IF seg.len = 0 THEN 1 ELSE seg.len) < Half /\ seg.len # 0
      BY DEF FitsFrom
    <2>3. At(base, seg.seq) + seg.len < Half
      BY <2>2 DEF At
    <2>4. At(base, seg.seq) \in Nat
      BY <1>1, AtType
    <2>5. At(base, n) < Half
      BY <1>1, <2>1, <2>3, <2>4, SpaceType
    <2>6. s.delivered = <<>> /\ s.pending = {}
      BY <1>3 DEF StreamPlaced, StreamInv, Placed
    <2>7. CellsOf(base, Handed(s)) = {}
      BY <2>6 DEF Handed, CellsOf
    <2>8. At(base, begin) .. At(base, n) - 1 = {}
      BY <2>1, <2>4
    <2> QED BY <1>1, <1>2, <2>1, <2>4, <2>5, <2>6, <2>7, <2>8
  <1>4. CASE s.next_seq # NoSeq
    <2>1. n = s.next_seq
      BY <1>4 DEF Expected
    <2>2. /\ begin \in SeqNum /\ At(base, n) < Half /\ At(base, begin) <= At(base, n)
          /\ CellsOf(base, Handed(s)) = At(base, begin) .. At(base, n) - 1
          /\ \A q \in s.pending : At(base, n) <= At(base, q.seq)
      BY <1>4, <2>1 DEF StreamPlaced, Placed
    <2>3. At(base, n) \in Nat /\ At(base, begin) \in Nat
      BY <1>2, <2>2, AtType
    <2> QED BY <1>2, <2>2, <2>3
  <1> QED BY <1>3, <1>4

\* Stream s, fed the segments g, is given new payload: seg, the last of the segments f.
NewPayload(base, s, g, seg, f, id, begin) ==
  /\ g \in Seq(Inputs) /\ seg \in Inputs /\ Len(g) < MaxFeeds
  /\ f = Append(g, seg) /\ id = Len(g) + 1
  /\ StreamPlaced(base, s, g, begin) /\ NothingYet(s, g)
  /\ s.next_seq = NoSeq => begin = seg.seq
  /\ seg.len > 0 /\ Ahead(s, seg) < seg.len

BufferedPlaced(base, s, seg, f, id, begin) ==
  /\ StreamPlaced(base, Buffered(s, seg, id), f, begin)
  /\ Merged(s, seg, id)[2] = 0 => Buffered(s, seg, id).pending = s.pending

\* Buffering the new part of a segment leaves everything in place.
LEMMA InsertPlaced ==
  ASSUME NEW base \in SeqNum, FitsFrom(base), NEW g, NEW seg, NEW f, NEW id, NEW begin, NEW s,
         NewPayload(base, s, g, seg, f, id, begin)
  PROVE  BufferedPlaced(base, s, seg, f, id, begin)
  <1> SUFFICES /\ StreamPlaced(base, Buffered(s, seg, id), f, begin)
               /\ Merged(s, seg, id)[2] = 0 => Buffered(s, seg, id).pending = s.pending
    BY DEF BufferedPlaced
  <1>0. /\ g \in Seq(Inputs) /\ seg \in Inputs /\ Len(g) < MaxFeeds
        /\ f = Append(g, seg) /\ id = Len(g) + 1
        /\ StreamPlaced(base, s, g, begin) /\ NothingYet(s, g)
        /\ (s.next_seq = NoSeq => begin = seg.seq)
        /\ seg.len > 0 /\ Ahead(s, seg) < seg.len
    BY DEF NewPayload
  <1> USE <1>0
  <1> DEFINE n == Expected(s, seg)
             p == NewPart(s, seg, id)
             ins == Merged(s, seg, id)
             t == Buffered(s, seg, id)
             P == s.pending
             a == At(base, begin)
             b == At(base, n)
  <1>1. /\ n \in SeqNum /\ n # NoSeq /\ begin \in SeqNum /\ b < Half /\ a \in Nat /\ b \in Nat
        /\ a <= b /\ CellsOf(base, Handed(s)) = a .. b - 1
        /\ \A q \in P : b <= At(base, q.seq)
    BY ExpectedPlaced
  <1>2. /\ f \in Seq(Inputs) /\ Len(f) = id /\ f[id] = seg /\ id \in 1 .. Len(f) /\ Len(f) <= MaxFeeds
        /\ Len(g) \in Nat /\ \A j \in 1 .. Len(g) : f[j] = g[j] /\ j \in 1 .. Len(f)
    BY InputsAssumption
  <1>3. /\ CutFrom(p, f) /\ Within(base, p) /\ p.feed = id /\ p.len \in Nat /\ b <= At(base, p.seq)
        /\ \A x \in CarriedCells(base, f, id) : b <= x => x \in Cells(base, p)
        /\ Cells(base, p) \subseteq CarriedCells(base, f, id)
    <2>1. /\ f[id].len > 0 /\ Expected(s, f[id]) \in SeqNum /\ At(base, Expected(s, f[id])) < Half
          /\ Ahead(s, f[id]) < f[id].len
      BY <1>1, <1>2
    <2>2. b = At(base, Expected(s, f[id]))
      BY <1>2
    <2>3. NewPlaces(base, NewPart(s, f[id], id), f, id, At(base, Expected(s, f[id])))
      BY ONLY base \in SeqNum, FitsFrom(base), <1>2, <2>1, FedPiece
    <2>4. p = NewPart(s, f[id], id)
      BY <1>2
    <2> HIDE DEF b, p
    <2> QED BY <2>2, <2>3, <2>4 DEF NewPlaces
  <1>4. \A q \in P \cup Handed(s) \cup s.evicted : CutFrom(q, g) /\ q.feed \in 1 .. Len(g)
    BY DEF StreamPlaced, StreamInv, AllCut, CutFrom, Handed
  <1>5. \A q \in P \cup s.evicted : CutFrom(q, f) /\ Within(base, q)
    <2> TAKE q \in P \cup s.evicted
    <2>1. CutFrom(q, f)
      BY <1>2, <1>4 DEF CutFrom
    <2> QED BY <1>2, <2>1, CutWithin
  <1>6. \A q, o \in P : q # o => Cells(base, q) \cap Cells(base, o) = {}
    BY DEF StreamPlaced, Placed
  <1>7. Inserted(base, P, p, f, ins)
    <2>1. Apart(base, P, f)
      BY <1>5, <1>6 DEF Apart
    <2>2. At(base, n) < Half /\ n \in SeqNum
      BY <1>1
    <2>3. ins = InsertPending(P, n, p)
      BY DEF Merged
    <2> HIDE DEF ins, p, t, P, n, a, b
    <2>4. Inserted(base, P, p, f, InsertPending(P, n, p))
      BY ONLY base \in SeqNum, <1>2, <1>3, <2>1, <2>2, InsertPlaces
    <2> QED BY <2>3, <2>4
  <1>8. /\ t.next_seq = n /\ t.pending = ins[1] /\ t.delivered = s.delivered /\ t.evicted = s.evicted
        /\ t.pending_bytes = SatSub(s.pending_bytes + ins[2], p.len - ins[2]) /\ s.pending_bytes \in Nat
    BY DEF StreamPlaced, StreamInv, Streams, Buffered
  <1> HIDE DEF p, ins, t
  <1>18. /\ \A q \in ins[1] : CutFrom(q, f) /\ Within(base, q)
         /\ \A q, o \in ins[1] : q # o => Cells(base, q) \cap Cells(base, o) = {}
         /\ CellsOf(base, ins[1]) = CellsOf(base, P) \cup Cells(base, p)
         /\ \A q \in ins[1] : \E o \in P \cup {p} :
              q.feed = o.feed /\ Cells(base, q) \subseteq Cells(base, o)
         /\ ins[2] \in Nat /\ (ins[2] = 0 => ins[1] = P)
    BY <1>7 DEF Inserted, Apart
  <1>19. Policy = "FirstWins" =>
           /\ P \subseteq ins[1]
           /\ \A q \in ins[1] \ P : /\ q.feed = p.feed /\ Cells(base, q) \subseteq Cells(base, p)
                                    /\ Cells(base, q) \cap CellsOf(base, P) = {}
           /\ Cardinality(CellsOf(base, ins[1])) = Cardinality(CellsOf(base, P)) + ins[2]
           /\ ins[2] <= p.len
    BY <1>7 DEF Inserted
  <1>9. Handed(t) = Handed(s)
    BY <1>8 DEF Handed
  <1> HIDE DEF n, a, b, P
  <1>10. Placed(base, t, begin)
    <2>1. ASSUME NEW q \in t.pending PROVE b <= At(base, q.seq)
      <3>1. PICK o \in P \cup {p} : Cells(base, q) \subseteq Cells(base, o)
        BY <1>18, <1>8
      <3>2. At(base, q.seq) \in Cells(base, q)
        BY <1>18, <1>8, CellsOfOne
      <3>3. At(base, q.seq) \in At(base, o.seq) .. At(base, o.seq) + o.len - 1
        BY <3>1, <3>2 DEF Cells
      <3>4. At(base, o.seq) \in Nat /\ o.len \in Nat /\ At(base, q.seq) \in Nat /\ b <= At(base, o.seq)
        BY <1>1, <1>3, <1>5, <1>18, <1>8, CellsOfOne
      <3> QED BY <1>1, <3>3, <3>4
    <2>2. ASSUME NEW q \in t.pending, NEW e \in t.evicted, q.feed = e.feed
          PROVE  Cells(base, q) \cap Cells(base, e) = {}
      <3>1. PICK o \in P \cup {p} : q.feed = o.feed /\ Cells(base, q) \subseteq Cells(base, o)
        BY <1>18, <1>8
      <3>2. o # p
        <4>1. e \in s.evicted /\ e.feed \in 1 .. Len(g) /\ o.feed = e.feed
          BY <1>4, <1>8, <2>2, <3>1
        <4> QED BY <1>2, <1>3, <4>1
      <3>3. Cells(base, o) \cap Cells(base, e) = {}
        BY <1>8, <2>2, <3>1, <3>2 DEF StreamPlaced, Placed, P
      <3> QED BY <3>1, <3>3
    <2>3. \A q, o \in t.pending : q # o => Cells(base, q) \cap Cells(base, o) = {}
      BY <1>18, <1>8
    <2>4. CellsOf(base, Handed(t)) = At(base, begin) .. At(base, t.next_seq) - 1
      BY <1>1, <1>8, <1>9 DEF a, b
    <2> QED BY <1>1, <1>8, <2>1, <2>2, <2>3, <2>4 DEF Placed, a, b
  <1> DEFINE all == CellsOf(base, P \cup Handed(s) \cup s.evicted)
  <1>11. /\ CellsOf(base, t.pending \cup Handed(t) \cup t.evicted) = all \cup Cells(base, p)
         /\ CellsOf(base, Handed(s)) \subseteq all
    <2>1. CellsOf(base, t.pending \cup Handed(t) \cup t.evicted)
            = CellsOf(base, t.pending) \cup CellsOf(base, Handed(t) \cup t.evicted)
      BY DEF CellsOf
    <2>2. all = CellsOf(base, P) \cup CellsOf(base, Handed(s) \cup s.evicted)
      BY DEF CellsOf
    <2>3. CellsOf(base, Handed(s)) \subseteq CellsOf(base, Handed(s) \cup s.evicted)
      BY DEF CellsOf
    <2>4. /\ CellsOf(base, t.pending) = CellsOf(base, P) \cup Cells(base, p)
          /\ CellsOf(base, Handed(t) \cup t.evicted) = CellsOf(base, Handed(s) \cup s.evicted)
      BY <1>18, <1>8, <1>9
    <2> HIDE DEF all
    <2> QED BY <2>1, <2>2, <2>3, <2>4
  <1>12. ASSUME NEW j \in 1 .. Len(g), NEW x \in CarriedCells(base, f, j), a <= x
         PROVE  x \in all
    <2>1. f[j] = g[j] /\ x \in CarriedCells(base, g, j)
      BY <1>2, <1>12 DEF CarriedCells
    <2>2. s.next_seq # NoSeq
      <3> SUFFICES ASSUME s.next_seq = NoSeq PROVE FALSE
        OBVIOUS
      <3>1. g[j].len = 0 /\ g[j] \in Inputs
        BY DEF NothingYet
      <3>2. g[j].seq \in SeqNum
        BY <3>1, InputsAssumption
      <3>3. At(base, g[j].seq) \in Nat
        BY <3>2, AtType
      <3>4. x \in At(base, g[j].seq) .. At(base, g[j].seq) + 0 - 1
        BY <2>1, <3>1 DEF CarriedCells
      <3> QED BY <3>3, <3>4
    <2> QED BY <1>12, <2>1, <2>2 DEF StreamPlaced, Accounted, a, P
  <1> HIDE DEF all
  <1>13. Accounted(base, t, f, begin)
    <2> SUFFICES ASSUME NEW j \in 1 .. Len(f), NEW x \in CarriedCells(base, f, j), a <= x
                 PROVE  x \in all \cup Cells(base, p)
      BY <1>11 DEF Accounted, a
    <2>1. CASE j = id
      <3>1. x \in Int
        <4>1. f[j].seq \in SeqNum /\ f[j].len \in Nat
          BY <1>2, InputsAssumption
        <4>2. At(base, f[j].seq) \in Nat
          BY <4>1, AtType
        <4> QED BY <4>1, <4>2 DEF CarriedCells
      <3>2. CASE b <= x
        BY <1>3, <2>1, <3>2
      <3>3. CASE ~ (b <= x)
        <4>1. x \in a .. b - 1
          BY <1>1, <3>1, <3>3
        <4> QED BY <1>1, <1>11, <4>1
      <3> QED BY <3>2, <3>3
    <2>2. CASE j # id
      <3>1. j \in 1 .. Len(g)
        BY <1>2, <2>2
      <3> QED BY <3>1, <1>12
    <2> QED BY <2>1, <2>2
  <1>14. EarliestUsed(base, t, f)
    <2> SUFFICES ASSUME Policy = "FirstWins", NEW q \in ins[1] \cup Handed(s), NEW x \in Cells(base, q),
                        NEW j \in 1 .. q.feed - 1, x \in CarriedCells(base, f, j)
                 PROVE  \E e \in s.evicted : e.feed < q.feed /\ x \in Cells(base, e)
      BY <1>8, <1>9 DEF EarliestUsed
    <2>1. CASE q \in P \cup Handed(s)
      <3>1. j \in 1 .. Len(g)
        BY <1>2, <1>4, <2>1
      <3>2. x \in CarriedCells(base, g, j)
        BY <1>2, <3>1 DEF CarriedCells
      <3> QED BY <2>1, <3>2 DEF StreamPlaced, EarliestUsed, P
    <2>2. CASE q \notin P \cup Handed(s)
      <3>1. q \in ins[1] \ P
        BY <2>2
      <3>2. q.feed = id /\ x \in Cells(base, p) /\ x \notin CellsOf(base, P)
        BY <1>3, <1>19, <3>1
      <3>3. j \in 1 .. Len(g)
        BY <1>2, <3>2
      <3>4. x \in Int /\ b <= x
        <4>1. x \in At(base, p.seq) .. At(base, p.seq) + p.len - 1
          BY <3>2 DEF Cells
        <4>2. At(base, p.seq) \in Nat
          BY <1>3, CellsOfOne
        <4> QED BY <1>1, <1>3, <4>1, <4>2
      <3>5. x \notin CellsOf(base, Handed(s))
        BY <1>1, <3>4
      <3>6. x \in all
        BY <1>1, <1>12, <3>3, <3>4
      <3>7. PICK e \in s.evicted : x \in Cells(base, e)
        BY <3>2, <3>5, <3>6 DEF all, CellsOf
      <3>8. e.feed < q.feed
        BY <1>2, <1>4, <3>2
      <3> QED BY <3>7, <3>8
    <2> QED BY <2>1, <2>2
  <1>15. ASSUME Policy = "FirstWins"
         PROVE  t.pending_bytes <= Cardinality(CellsOf(base, t.pending))
    <2> DEFINE c == Cardinality(CellsOf(base, P))
               d == Cardinality(CellsOf(base, ins[1]))
    <2>1. d = c + ins[2] /\ ins[2] <= p.len
      BY <1>19, <1>15
    <2>2. c \in Nat
      BY <1>5, CellsFinite
    <2>3. s.pending_bytes <= c
      BY <1>15 DEF StreamPlaced, P
    <2> HIDE DEF c, d
    <2>4. SatSub(s.pending_bytes + ins[2], p.len - ins[2]) <= d
      BY <1>3, <1>18, <1>8, <2>1, <2>2, <2>3 DEF SatSub
    <2> QED BY <1>8, <2>4 DEF d
  <1>20. StreamInv(t, f, begin)
    <2>1. StreamInv(s, f, begin)
      BY CutMonotone DEF StreamPlaced
    <2>2. StreamInv(Buffered(s, f[id], id), f, begin)
      BY <1>2, <2>1, InsertedInv
    <2> QED BY <1>2, <2>2 DEF t
  <1>16. \A e \in t.evicted : CutFrom(e, f)
    BY <1>5, <1>8
  <1>17. ins[2] = 0 => t.pending = s.pending
    BY <1>18, <1>8 DEF P
  <1> QED BY <1>10, <1>13, <1>14, <1>15, <1>16, <1>17, <1>20 DEF StreamPlaced, t, ins

\* What s became t with one segment: all that was held on the way.
HeldOnTheWay(s, t) ==
  t.pending \cup {t.delivered[i] : i \in Len(s.delivered) + 1 .. Len(t.delivered)}
            \cup (t.evicted \ s.evicted)

\* It takes more places than the stream may hold bytes, or has too many pieces.
OverBudget(base, s, t) ==
  \/ Cardinality(CellsOf(base, HeldOnTheWay(s, t))) + s.ready > MaxStreamBuffer
  \/ Cardinality(HeldOnTheWay(s, t)) > MaxSegments

\* One segment leaves everything in place: nothing waits at the expected byte, only a
\* stream marked BufferOverflow has dropped pieces, and the mark had its reason.
Fed(base, s, t, f, begin) ==
  /\ StreamPlaced(base, t, f, begin) /\ Settled(t)
  /\ ~ t.overflow => t.evicted = {}
  /\ Policy = "FirstWins" /\ t.overflow /\ ~ s.overflow => OverBudget(base, s, t)

\* What was buffered before pieces were dropped and handed out was held on the way.
LEMMA HeldAll ==
  ASSUME NEW base \in SeqNum, FitsFrom(base), NEW f \in Seq(Inputs), NEW begin,
         NEW s, NEW t, t.delivered = s.delivered, t.evicted = s.evicted, t.ready = s.ready,
         StreamPlaced(base, t, f, begin), NEW u, StreamPlaced(base, u, f, begin), Onward(t, u),
         Policy = "FirstWins",
         \/ t.pending_bytes + t.ready > MaxStreamBuffer
         \/ Cardinality(t.pending) > MaxSegments
  PROVE  OverBudget(base, s, u)
  <1> DEFINE H == HeldOnTheWay(s, u)
             P == t.pending
  <1>1. P \subseteq H
    BY DEF Onward, HeldOnTheWay
  <1>2. /\ u.delivered \in Seq(Pieces) /\ t.delivered \in Seq(Pieces) /\ t.ready \in Nat
        /\ t.pending_bytes \in Nat /\ t.pending \subseteq Pieces
    BY DEF StreamPlaced, StreamInv, Streams
  <1>3. \A q \in H : CutFrom(q, f)
    <2>1. \A i \in Len(s.delivered) + 1 .. Len(u.delivered) : i \in 1 .. Len(u.delivered)
      BY <1>2
    <2> QED BY <2>1 DEF HeldOnTheWay, StreamPlaced, StreamInv, AllCut
  <1>4. \A q \in H : Within(base, q)
    BY <1>3, CutWithin
  <1> DEFINE c == Cardinality(CellsOf(base, P))
             d == Cardinality(CellsOf(base, H))
             m == Cardinality(P)
             h == Cardinality(H)
  <1> HIDE DEF H, P
  <1>5. \A q \in P : Within(base, q)
    BY <1>1, <1>4
  <1>6. IsFiniteSet(CellsOf(base, H)) /\ IsFiniteSet(H) /\ d \in Nat /\ h \in Nat
    BY <1>4, CellsFinite
  <1>7. c \in Nat /\ m \in Nat
    BY <1>5, CellsFinite
  <1>8. CellsOf(base, P) \in SUBSET CellsOf(base, H)
    BY <1>1 DEF CellsOf
  <1>9. c <= d
    BY <1>6, <1>8, FS_Subset
  <1>10. P \in SUBSET H
    BY <1>1
  <1>11. m <= h
    BY <1>6, <1>10, FS_Subset
  <1>12. t.pending_bytes <= c
    BY DEF StreamPlaced, P
  <1> HIDE DEF c, d, m, h
  <1>13. t.pending_bytes + t.ready > MaxStreamBuffer \/ m > MaxSegments
    BY DEF m, P
  <1>14. MaxStreamBuffer \in Nat /\ MaxSegments \in Nat
    BY StreamAssumption
  <1>15. d + t.ready > MaxStreamBuffer \/ h > MaxSegments
    BY <1>2, <1>6, <1>7, <1>9, <1>11, <1>12, <1>13, <1>14
  <1> QED BY <1>15 DEF OverBudget, d, h, H

\* Payload that is buffered, cut to the budget and handed out.
LEMMA FeedDataPlaced ==
  ASSUME NEW base \in SeqNum, FitsFrom(base), NEW g \in Seq(Inputs), NEW seg \in Inputs,
         Len(g) < MaxFeeds, NEW f, f = Append(g, seg), NEW id, id = Len(g) + 1, NEW begin,
         NEW s, StreamPlaced(base, s, g, begin), NothingYet(s, g),
         s.next_seq = NoSeq => begin = seg.seq, seg.len > 0, Ahead(s, seg) < seg.len,
         Settled(s), ~ s.overflow => s.evicted = {}
  PROVE  Fed(base, s, FeedData(s, seg, id), f, begin)
  <1> DEFINE n     == Expected(s, seg)
             ahead == Ahead(s, seg)
             p     == [seq |-> (seg.seq + ahead) % SeqSpace, len |-> seg.len - ahead,
                       feed |-> id, off |-> ahead]
             ins   == InsertPending(s.pending, n, p)
             t     == [s EXCEPT !.next_seq = n, !.pending = ins[1],
                                !.pending_bytes = SatSub(@ + ins[2], p.len - ins[2])]
             over  == \/ t.pending_bytes + t.ready > MaxStreamBuffer
                      \/ Cardinality(t.pending) > MaxSegments
             kept  == IF over THEN [EnforceBudget(t, n) EXCEPT !.overflow = TRUE] ELSE t
             out   == IF ins[2] = 0 THEN [t EXCEPT !.verdict = "Retransmission"]
                      ELSE [Advance(kept) EXCEPT
                             !.verdict = IF ins[2] = p.len /\ SeqBefore(n, p.seq) THEN "Buffered"
                                         ELSE IF ins[2] < p.len \/ ahead > 0 THEN "PartialOverlap"
                                         ELSE "InOrder"]
             Verdicts == {"Retransmission", "Buffered", "PartialOverlap", "InOrder"}
  <1>0. FeedData(s, seg, id) = out
    BY DEF FeedData
  <1>1. p = NewPart(s, seg, id) /\ ins = Merged(s, seg, id) /\ t = Buffered(s, seg, id)
    BY DEF NewPart, Merged, Buffered
  <1>2. s \in Streams /\ f \in Seq(Inputs)
    BY DEF StreamPlaced, StreamInv
  <1>3. n \in SeqNum /\ n # NoSeq
    BY ExpectedPlaced
  <1>4. StreamPlaced(base, t, f, begin) /\ (ins[2] = 0 => t.pending = s.pending)
    <2>1. NewPayload(base, s, g, seg, f, id, begin)
      BY DEF NewPayload
    <2>2. BufferedPlaced(base, s, seg, f, id, begin)
      BY ONLY base \in SeqNum, FitsFrom(base), <2>1, InsertPlaced
    <2> HIDE DEF t, ins
    <2> QED BY <1>1, <2>2 DEF BufferedPlaced
  <1>5. /\ t.next_seq = n /\ t.delivered = s.delivered /\ t.evicted = s.evicted
        /\ t.overflow = s.overflow /\ t.ready = s.ready
    BY <1>2 DEF Streams
  <1> HIDE DEF p, ins
  <1>9. \A w \in Streams, v \in Verdicts :
          LET x == [w EXCEPT !.verdict = v]
          IN  /\ x \in Streams /\ x.next_seq = w.next_seq /\ x.delivered = w.delivered
              /\ x.pending = w.pending /\ x.evicted = w.evicted /\ x.overflow = w.overflow
              /\ x.pending_bytes = w.pending_bytes
    BY DEF Streams
  <1>6. CASE ins[2] = 0
    <2> DEFINE x == [t EXCEPT !.verdict = "Retransmission"]
    <2>1. out = x
      BY <1>6
    <2> HIDE DEF out, t
    <2>2. /\ x \in Streams /\ x.next_seq = t.next_seq /\ x.delivered = t.delivered
          /\ x.pending = t.pending /\ x.evicted = t.evicted /\ x.overflow = t.overflow
          /\ x.pending_bytes = t.pending_bytes
      <3>1. t \in Streams
        BY <1>4 DEF StreamPlaced, StreamInv
      <3> QED BY <1>9, <3>1
    <2> HIDE DEF x, n
    <2>3. StreamPlaced(base, x, f, begin)
      BY <1>4, <2>2, NotedPlaced
    <2>4. Settled(x)
      <3>1. CASE s.next_seq = NoSeq
        <4>1. x.pending = {}
          BY <1>4, <1>6, <2>2, <3>1 DEF StreamPlaced, Placed
        <4> QED BY <4>1 DEF Settled
      <3>2. CASE s.next_seq # NoSeq
        <4>1. x.next_seq = s.next_seq /\ x.pending = s.pending
          BY <1>4, <1>5, <1>6, <2>2, <3>2 DEF n, Expected
        <4> QED BY <4>1 DEF Settled
      <3> QED BY <3>1, <3>2
    <2> QED BY <1>0, <1>5, <2>1, <2>2, <2>3, <2>4 DEF Fed
  <1>7. CASE ins[2] # 0
    <2> HIDE DEF t, n
    <2>1. /\ StreamPlaced(base, kept, f, begin) /\ Onward(t, kept)
          /\ kept.overflow = (over \/ s.overflow)
          /\ ~ over => kept.evicted = s.evicted
      <3> DEFINE e == EnforceBudget(t, n)
                 u == [e EXCEPT !.overflow = TRUE]
      <3>1. StreamPlaced(base, e, f, begin) /\ Onward(t, e)
        BY <1>2, <1>3, <1>4, EnforcePlaced
      <3> HIDE DEF e
      <3>2. /\ u \in Streams /\ u.next_seq = e.next_seq /\ u.delivered = e.delivered
            /\ u.pending = e.pending /\ u.evicted = e.evicted /\ u.pending_bytes = e.pending_bytes
            /\ u.overflow = TRUE
        BY <3>1 DEF StreamPlaced, StreamInv, Streams
      <3> HIDE DEF u
      <3>3. StreamPlaced(base, u, f, begin)
        BY <3>1, <3>2, NotedPlaced
      <3>4. Onward(t, u)
        BY <3>1, <3>2 DEF Onward
      <3>5. Onward(t, t)
        BY DEF Onward
      <3>6. kept = IF over THEN u ELSE t
        BY DEF e, u
      <3>7. s.overflow \in BOOLEAN
        BY <1>2 DEF Streams
      <3> HIDE DEF kept, over
      <3>8. CASE over
        BY <3>2, <3>3, <3>4, <3>6, <3>8, <3>7
      <3>9. CASE ~ over
        BY <1>4, <1>5, <3>5, <3>6, <3>9, <3>7
      <3> QED BY <3>8, <3>9
    <2> HIDE DEF kept
    <2> DEFINE a == Advance(kept)
    <2>2. /\ StreamPlaced(base, a, f, begin) /\ Onward(kept, a) /\ Settled(a)
          /\ a.evicted = kept.evicted /\ a.overflow = kept.overflow
      BY ONLY base \in SeqNum, FitsFrom(base), <1>2, <2>1, AdvancePlaced
    <2>3. \E v \in Verdicts : out = [a EXCEPT !.verdict = v]
      BY <1>7
    <2> HIDE DEF a
    <2>4. PICK v \in Verdicts : out = [a EXCEPT !.verdict = v]
      BY <2>3
    <2> DEFINE x == [a EXCEPT !.verdict = v]
    <2>5. /\ x \in Streams /\ x.next_seq = a.next_seq /\ x.delivered = a.delivered
          /\ x.pending = a.pending /\ x.evicted = a.evicted /\ x.overflow = a.overflow
          /\ x.pending_bytes = a.pending_bytes
      <3>1. a \in Streams
        BY <2>2 DEF StreamPlaced, StreamInv
      <3> QED BY <1>9, <3>1
    <2>6. out = x
      BY <2>4
    <2> HIDE DEF out, x, Verdicts
    <2>7. StreamPlaced(base, x, f, begin) /\ Settled(x)
      <3>1. StreamPlaced(base, x, f, begin)
        BY <2>2, <2>5, NotedPlaced
      <3> QED BY <2>2, <2>5, <3>1 DEF Settled
    <2>8. Onward(t, x)
      <3>1. /\ Len(t.delivered) \in Nat /\ Len(kept.delivered) \in Nat /\ Len(a.delivered) \in Nat
        <4>1. t \in Streams /\ kept \in Streams /\ a \in Streams
          BY <1>4, <2>1, <2>2 DEF StreamPlaced, StreamInv
        <4> QED BY <4>1 DEF Streams
      <3>2. Onward(t, a)
        BY <2>1, <2>2, <3>1, OnwardTwice
      <3> QED BY <2>5, <3>2 DEF Onward
    <2>9. ~ x.overflow => x.evicted = {}
      BY <2>1, <2>2, <2>5 DEF over
    <2>10. ASSUME Policy = "FirstWins", x.overflow, ~ s.overflow PROVE OverBudget(base, s, x)
      <3>1. over
        BY <2>1, <2>2, <2>5, <2>10
      <3> QED BY <1>2, <1>4, <1>5, <2>7, <2>8, <2>10, <3>1, HeldAll
    <2> QED BY <1>0, <2>6, <2>7, <2>9, <2>10 DEF Fed
  <1> QED BY <1>6, <1>7

\* A segment that carries nothing from the expected byte on changes nothing.
LEMMA OldPlaced ==
  ASSUME NEW base \in SeqNum, FitsFrom(base), NEW g \in Seq(Inputs), NEW seg \in Inputs,
         NEW f, f = Append(g, seg), NEW begin, NEW s, StreamPlaced(base, s, g, begin),
         s.next_seq # NoSeq =>
           \A x \in CarriedCells(base, f, Len(g) + 1) : x < At(base, s.next_seq)
  PROVE  StreamPlaced(base, s, f, begin)
  <1>1. /\ f \in Seq(Inputs) /\ Len(f) = Len(g) + 1 /\ f[Len(g) + 1] = seg
        /\ Len(g) \in Nat /\ \A j \in 1 .. Len(g) : f[j] = g[j] /\ j \in 1 .. Len(f)
    OBVIOUS
  <1>2. StreamInv(s, f, begin)
    BY CutMonotone DEF StreamPlaced
  <1>3. \A q : CutFrom(q, g) => CutFrom(q, f) /\ q.feed \in 1 .. Len(g)
    BY <1>1 DEF CutFrom
  <1>4. \A q \in s.pending \cup Handed(s) \cup s.evicted : CutFrom(q, f) /\ q.feed \in 1 .. Len(g)
    BY <1>3 DEF StreamPlaced, StreamInv, AllCut, Handed
  <1>5. \A j \in 1 .. Len(g) : CarriedCells(base, f, j) = CarriedCells(base, g, j)
    BY <1>1 DEF CarriedCells
  <1>6. Accounted(base, s, f, begin)
    <2> SUFFICES ASSUME s.next_seq # NoSeq, NEW j \in 1 .. Len(f), NEW x \in CarriedCells(base, f, j),
                        At(base, begin) <= x
                 PROVE  x \in CellsOf(base, s.pending \cup Handed(s) \cup s.evicted)
      BY DEF Accounted
    <2>1. CASE j \in 1 .. Len(g)
      BY <1>5, <2>1 DEF StreamPlaced, Accounted
    <2>2. CASE j \notin 1 .. Len(g)
      <3>1. j = Len(g) + 1
        BY <1>1, <2>2
      <3>2. x < At(base, s.next_seq)
        BY <3>1
      <3>3. /\ begin \in SeqNum /\ s.next_seq \in SeqNum
            /\ CellsOf(base, Handed(s)) = At(base, begin) .. At(base, s.next_seq) - 1
        BY DEF StreamPlaced, Placed, StreamInv, Streams
      <3>4. At(base, begin) \in Nat /\ At(base, s.next_seq) \in Nat
        BY <3>3, AtType
      <3>5. x \in Int
        <4>1. f[j].seq \in SeqNum /\ f[j].len \in Nat
          BY <1>1, InputsAssumption
        <4>2. At(base, f[j].seq) \in Nat
          BY <4>1, AtType
        <4> QED BY <4>1, <4>2 DEF CarriedCells
      <3>6. x \in CellsOf(base, Handed(s))
        BY <3>2, <3>3, <3>4, <3>5
      <3> QED BY <3>6 DEF CellsOf
    <2> QED BY <2>1, <2>2
  <1>7. EarliestUsed(base, s, f)
    <2> SUFFICES ASSUME Policy = "FirstWins", NEW q \in s.pending \cup Handed(s),
                        NEW x \in Cells(base, q), NEW j \in 1 .. q.feed - 1,
                        x \in CarriedCells(base, f, j)
                 PROVE  \E e \in s.evicted : e.feed < q.feed /\ x \in Cells(base, e)
      BY DEF EarliestUsed
    <2>1. j \in 1 .. Len(g)
      BY <1>1, <1>4
    <2> QED BY <1>5, <2>1 DEF StreamPlaced, EarliestUsed
  <1> QED BY <1>2, <1>4, <1>6, <1>7 DEF StreamPlaced

\* Stream s, fed the segments g, is given seg, the last of the segments f.
NewSegment(base, s, g, seg, f, id, begin) ==
  /\ g \in Seq(Inputs) /\ seg \in Inputs /\ Len(g) < MaxFeeds
  /\ f = Append(g, seg) /\ id = Len(g) + 1
  /\ StreamPlaced(base, s, g, begin) /\ NothingYet(s, g)
  /\ s.next_seq = NoSeq /\ StartsStream(seg) =>
       begin = IF seg.len = 0 THEN (seg.seq + 1) % SeqSpace ELSE seg.seq
  /\ Settled(s) /\ (~ s.overflow => s.evicted = {})

\* feed leaves everything in place, whatever the segment holds.
LEMMA FeedPlaced ==
  ASSUME NEW base \in SeqNum, FitsFrom(base), NEW g, NEW seg, NEW f, NEW id, NEW begin, NEW s,
         NewSegment(base, s, g, seg, f, id, begin)
  PROVE  Fed(base, s, FeedSegment(s, seg, id), f, begin)
  <1> DEFINE t == [s EXCEPT !.rst_seen = @ \/ "RST" \in seg.flags, !.fin_seen = @ \/ "FIN" \in seg.flags]
  <1>0. /\ g \in Seq(Inputs) /\ seg \in Inputs /\ Len(g) < MaxFeeds
        /\ f = Append(g, seg) /\ id = Len(g) + 1
        /\ StreamPlaced(base, s, g, begin) /\ NothingYet(s, g)
        /\ (s.next_seq = NoSeq /\ StartsStream(seg) =>
              begin = IF seg.len = 0 THEN (seg.seq + 1) % SeqSpace ELSE seg.seq)
        /\ Settled(s) /\ (~ s.overflow => s.evicted = {})
    BY DEF NewSegment
  <1>1. /\ seg.seq \in SeqNum /\ seg.len \in 0 .. Half - 1 /\ s \in Streams
        /\ f \in Seq(Inputs) /\ Len(f) = id /\ f[id] = seg /\ id \in 1 .. Len(f) /\ Len(f) <= MaxFeeds
    BY <1>0, InputsAssumption DEF StreamPlaced, StreamInv
  <1>2. /\ t \in Streams /\ t.next_seq = s.next_seq /\ t.delivered = s.delivered
        /\ t.pending = s.pending /\ t.evicted = s.evicted /\ t.pending_bytes = s.pending_bytes
        /\ t.overflow = s.overflow /\ t.ready = s.ready
    BY <1>1 DEF Streams
  <1>3. FeedSegment(s, seg, id) =
          IF seg.len = 0 THEN FeedEmpty(t, seg)
          ELSE IF Ahead(t, seg) >= seg.len THEN [t EXCEPT !.verdict = "Retransmission"]
          ELSE FeedData(t, seg, id)
    BY DEF FeedSegment
  <1> HIDE DEF t
  <1>4. StreamPlaced(base, t, g, begin)
    BY <1>0, <1>2, NotedPlaced
  <1>5. Settled(t) /\ NothingYet(t, g) /\ (~ t.overflow => t.evicted = {})
    BY <1>0, <1>2 DEF Settled, NothingYet
  <1>6. CarriedCells(base, f, id) = At(base, seg.seq) .. At(base, seg.seq) + seg.len - 1
        /\ At(base, seg.seq) \in Nat
    BY <1>1, AtType DEF CarriedCells
  <1>7. CASE seg.len = 0
    <2> DEFINE moved == t.next_seq = NoSeq /\ "SYN" \in seg.flags
               first == (seg.seq + 1) % SeqSpace
               u == [t EXCEPT !.verdict = "InOrder", !.next_seq = IF moved THEN first ELSE @]
    <2>1. FeedSegment(s, seg, id) = u
      BY <1>2, <1>3, <1>7 DEF FeedEmpty, Streams
    <2>2. CarriedCells(base, f, id) = {}
      BY <1>6, <1>7
    <2>3. StreamPlaced(base, t, f, begin)
      BY <1>0, <1>4, <2>2, OldPlaced
    <2>4. first \in SeqNum
      <3>1. seg.seq + 1 \in Int
        BY <1>1, SpaceType DEF SeqNum
      <3> QED BY <3>1, ModRange, SpaceType DEF SeqNum
    <2> HIDE DEF first
    <2>5. /\ u \in Streams /\ u.next_seq = (IF moved THEN first ELSE t.next_seq)
          /\ u.delivered = t.delivered /\ u.pending = t.pending /\ u.evicted = t.evicted
          /\ u.pending_bytes = t.pending_bytes /\ u.overflow = t.overflow
      BY <1>2, <2>4 DEF Streams
    <2> HIDE DEF u
    <2>6. CASE ~ moved
      <3>1. StreamPlaced(base, u, f, begin)
        BY <2>3, <2>5, <2>6, NotedPlaced
      <3>2. Settled(u)
        BY <1>5, <2>5, <2>6 DEF Settled
      <3> QED BY <1>2, <1>5, <2>1, <2>5, <3>1, <3>2 DEF Fed
    <2>7. CASE moved
      <3>1. u.next_seq = first /\ begin = first /\ first # NoSeq
        BY <1>0, <1>2, <1>7, <2>4, <2>5, <2>7, SpaceType DEF first, StartsStream
      <3>2. u.pending = {} /\ u.evicted = {} /\ u.delivered = <<>>
        BY <1>4, <2>5, <2>7 DEF StreamPlaced, StreamInv, Placed
      <3>3. Handed(u) = {} /\ CellsOf(base, Handed(u)) = {} /\ CellsOf(base, u.pending) = {}
        BY <3>2 DEF Handed, CellsOf
      <3>4. At(base, first) \in Nat /\ At(base, first) < Half
        <4>1. At(base, seg.seq) + 1 < Half
          <5>1. ((seg.seq - base) % SeqSpace) + (IF seg.len = 0 THEN 1 ELSE seg.len) < Half
            BY <1>0, <2>7 DEF FitsFrom
          <5> QED BY <1>7, <5>1 DEF At
        <4>2. At(base, seg.seq) + 1 \in 0 .. SeqSpace - 1
          BY <1>6, <4>1, SpaceType
        <4>3. At(base, first) = At(base, seg.seq) + 1
          BY <1>1, <4>2, AtShift DEF first
        <4> QED BY <1>6, <4>1, <4>3
      <3>5. Placed(base, u, begin)
        <4>1. At(base, begin) .. At(base, u.next_seq) - 1 = {}
          BY <3>1, <3>4
        <4>2. /\ begin \in SeqNum /\ At(base, u.next_seq) < Half
              /\ At(base, begin) <= At(base, u.next_seq)
          BY <2>4, <3>1, <3>4
        <4>3. CellsOf(base, Handed(u)) = At(base, begin) .. At(base, u.next_seq) - 1
          BY <3>3, <4>1
        <4> QED BY <3>1, <3>2, <4>2, <4>3 DEF Placed
      <3>6. ASSUME NEW j \in 1 .. Len(f) PROVE CarriedCells(base, f, j) = {}
        <4>1. f[j].len = 0 /\ f[j].seq \in SeqNum
          <5>1. CASE j = id
            BY <1>1, <1>7, <5>1
          <5>2. CASE j # id
            <6>1. j \in 1 .. Len(g) /\ f[j] = g[j] /\ g[j] \in Inputs
              BY <1>0, <1>1, <5>2
            <6> QED BY <1>5, <2>7, <6>1, InputsAssumption DEF NothingYet
          <5> QED BY <5>1, <5>2
        <4>2. At(base, f[j].seq) \in Nat
          BY <4>1, AtType
        <4> QED BY <4>1, <4>2 DEF CarriedCells
      <3>7. Accounted(base, u, f, begin)
        BY <3>6 DEF Accounted
      <3>8. EarliestUsed(base, u, f)
        BY <3>2, <3>3 DEF EarliestUsed
      <3>9. StreamInv(u, f, begin)
        <4>1. StreamInv(t, f, begin)
          BY <2>3 DEF StreamPlaced
        <4> QED BY <2>5, <3>1, <3>2, <4>1 DEF StreamInv, AllCut, Run
      <3>10. u.pending_bytes <= Cardinality(CellsOf(base, u.pending)) \/ Policy # "FirstWins"
        <4>1. CellsOf(base, t.pending) = CellsOf(base, u.pending)
          BY <2>5
        <4> QED BY <2>5, <4>1, <2>3 DEF StreamPlaced
      <3>11. StreamPlaced(base, u, f, begin)
        BY <3>2, <3>5, <3>7, <3>8, <3>9, <3>10 DEF StreamPlaced
      <3>12. Settled(u)
        BY <3>2 DEF Settled
      <3> QED BY <1>2, <1>5, <2>1, <2>5, <3>11, <3>12 DEF Fed
    <2> QED BY <2>6, <2>7
  <1>8. CASE seg.len # 0 /\ Ahead(t, seg) >= seg.len
    <2> DEFINE u == [t EXCEPT !.verdict = "Retransmission"]
    <2>1. FeedSegment(s, seg, id) = u
      BY <1>3, <1>8
    <2>2. /\ u \in Streams /\ u.next_seq = t.next_seq /\ u.delivered = t.delivered
          /\ u.pending = t.pending /\ u.evicted = t.evicted /\ u.pending_bytes = t.pending_bytes
          /\ u.overflow = t.overflow
      BY <1>2 DEF Streams
    <2> HIDE DEF u
    <2>3. seg.len > 0 /\ StartsStream(seg)
      BY <1>1, <1>8 DEF StartsStream
    <2>4. t.next_seq = NoSeq => begin = seg.seq
      BY <1>0, <1>2, <1>8, <2>3
    <2>5. Expected(t, seg) \in SeqNum /\ At(base, Expected(t, seg)) < Half
      BY <1>0, <1>4, <2>3, <2>4, ExpectedPlaced
    <2>6. /\ At(base, Expected(t, seg)) \in Nat
          /\ Ahead(t, seg) = IF At(base, Expected(t, seg)) > At(base, seg.seq)
                             THEN At(base, Expected(t, seg)) - At(base, seg.seq) ELSE 0
      BY <1>0, <2>3, <2>5, AheadPlaces
    <2>7. At(base, seg.seq) + seg.len <= At(base, Expected(t, seg))
      BY <1>1, <1>6, <1>8, <2>3, <2>6
    <2>8. t.next_seq # NoSeq => \A x \in CarriedCells(base, f, id) : x < At(base, t.next_seq)
      <3> SUFFICES ASSUME t.next_seq # NoSeq, NEW x \in CarriedCells(base, f, id)
                   PROVE  x < At(base, t.next_seq)
        OBVIOUS
      <3>1. Expected(t, seg) = t.next_seq
        BY DEF Expected
      <3> QED BY <1>1, <1>6, <2>6, <2>7, <3>1
    <2>9. StreamPlaced(base, t, f, begin)
      BY <1>0, <1>4, <2>8, OldPlaced
    <2>10. StreamPlaced(base, u, f, begin)
      BY <2>2, <2>9, NotedPlaced
    <2>11. Settled(u)
      BY <1>5, <2>2 DEF Settled
    <2> QED BY <1>2, <1>5, <2>1, <2>2, <2>10, <2>11 DEF Fed
  <1>9. CASE seg.len # 0 /\ ~ (Ahead(t, seg) >= seg.len)
    <2>1. seg.len > 0 /\ Ahead(t, seg) < seg.len /\ StartsStream(seg)
      <3>1. Ahead(t, seg) \in Int
        BY <1>0, <1>1, <1>2, AheadType, SpaceType
      <3> QED BY <3>1, <1>1, <1>9 DEF StartsStream
    <2>2. t.next_seq = NoSeq => begin = seg.seq
      BY <1>0, <1>2, <1>9, <2>1
    <2>3. Fed(base, t, FeedData(t, seg, id), f, begin)
      BY <1>0, <1>4, <1>5, <2>1, <2>2, FeedDataPlaced
    <2>4. FeedSegment(s, seg, id) = FeedData(t, seg, id)
      BY <1>3, <1>9
    <2>5. ASSUME NEW x, OverBudget(base, t, x) PROVE OverBudget(base, s, x)
      BY <1>2, <2>5 DEF OverBudget, HeldOnTheWay
    <2> QED BY <1>2, <2>3, <2>4, <2>5 DEF Fed
  <1> QED BY <1>7, <1>8, <1>9

-----------------------------------------------------------------------------
(* The holes                                                                *)

\* The pieces P lie in the window behind n, apart from each other.
Behind(base, n, P) ==
  /\ n \in SeqNum /\ At(base, n) < Half
  /\ \A p \in P : Within(base, p) /\ At(base, n) < At(base, p.seq)
  /\ \A p, q \in P : p # q => Cells(base, p) \cap Cells(base, q) = {}

\* Where the pieces P end, or n itself.
EndsOf(n, P) == {n} \cup {(p.seq + p.len) % SeqSpace : p \in P}

\* The last end before a piece.
EndBefore(n, P, p) ==
  LET Before == {e \in EndsOf(n, P) : Distance(n, e) <= Distance(n, p.seq)}
  IN  CHOOSE e \in Before : \A f \in Before : Distance(n, f) <= Distance(n, e)

\* What gaps reports: for each piece with a hole before it, the last end and the distance.
LEMMA GapsAre ==
  ASSUME NEW s, s.next_seq # NoSeq
  PROVE  Gaps(s) = {<<EndBefore(s.next_seq, s.pending, p), Distance(EndBefore(s.next_seq, s.pending, p), p.seq)>> :
                      p \in {q \in s.pending : SeqBefore(EndBefore(s.next_seq, s.pending, q), q.seq)}}
  BY DEF Gaps, EndsOf, EndBefore

\* Ends have places too: n's, or the one after a piece.
LEMMA EndsPlaces ==
  ASSUME NEW base \in SeqNum, NEW n, NEW P, Behind(base, n, P)
  PROVE  /\ \A e \in EndsOf(n, P) : /\ e \in SeqNum /\ At(base, e) \in Nat /\ At(base, e) < Half
                                    /\ At(base, n) <= At(base, e)
                                    /\ Distance(n, e) = At(base, e) - At(base, n)
                                    /\ e = n \/ \E p \in P : At(base, e) = At(base, p.seq) + p.len
         /\ \A p \in P : \E e \in EndsOf(n, P) : At(base, e) = At(base, p.seq) + p.len
  <1>1. n \in SeqNum /\ At(base, n) < Half /\ At(base, n) \in Nat
    BY AtType DEF Behind
  <1>2. ASSUME NEW p \in P
        PROVE  /\ (p.seq + p.len) % SeqSpace \in SeqNum
               /\ At(base, (p.seq + p.len) % SeqSpace) = At(base, p.seq) + p.len
               /\ At(base, p.seq) \in Nat /\ p.len \in Nat \ {0} /\ At(base, p.seq) + p.len < Half
               /\ At(base, n) < At(base, p.seq)
    <2>1. Within(base, p) /\ At(base, n) < At(base, p.seq)
      BY DEF Behind
    <2>2. p.seq \in SeqNum /\ p.len \in Nat \ {0} /\ At(base, p.seq) + p.len < Half
      BY <2>1 DEF Within, Pieces
    <2>3. At(base, p.seq) \in Nat
      BY <2>2, AtType
    <2>4. At(base, p.seq) + p.len \in 0 .. SeqSpace - 1 /\ p.len \in Int
      BY <2>2, <2>3, SpaceType
    <2> QED BY <2>1, <2>2, <2>3, <2>4, AtShift
  <1>3. ASSUME NEW e \in EndsOf(n, P)
        PROVE  /\ e \in SeqNum /\ At(base, e) \in Nat /\ At(base, e) < Half
               /\ At(base, n) <= At(base, e)
               /\ e = n \/ \E p \in P : At(base, e) = At(base, p.seq) + p.len
    <2>1. CASE e = n
      BY <1>1, <2>1
    <2>2. CASE e # n
      <3>1. PICK p \in P : e = (p.seq + p.len) % SeqSpace
        BY <2>2 DEF EndsOf
      <3> QED BY <1>1, <1>2, <3>1
    <2> QED BY <2>1, <2>2
  <1>4. ASSUME NEW e \in EndsOf(n, P) PROVE Distance(n, e) = At(base, e) - At(base, n)
    BY <1>1, <1>3, AtDistance
  <1>5. ASSUME NEW p \in P PROVE \E e \in EndsOf(n, P) : At(base, e) = At(base, p.seq) + p.len
    BY <1>2 DEF EndsOf
  <1> QED BY <1>3, <1>4, <1>5

\* The last end before a piece is no later than it, and no end lies between them.
LEMMA EndBeforePlace ==
  ASSUME NEW base \in SeqNum, NEW n, NEW P, Behind(base, n, P), NEW p \in P
  PROVE  LET l == EndBefore(n, P, p)
         IN  /\ l \in EndsOf(n, P) /\ At(base, l) <= At(base, p.seq)
             /\ \A e \in EndsOf(n, P) : At(base, e) <= At(base, p.seq) => At(base, e) <= At(base, l)
  <1> DEFINE Before == {e \in EndsOf(n, P) : Distance(n, e) <= Distance(n, p.seq)}
             b == At(base, n)
             l == EndBefore(n, P, p)
  <1>1. /\ p.seq \in SeqNum /\ At(base, p.seq) \in Nat /\ At(base, p.seq) < Half /\ b < At(base, p.seq)
        /\ n \in SeqNum /\ b \in Nat /\ b < Half /\ Distance(n, p.seq) = At(base, p.seq) - b
    <2>1. Within(base, p) /\ b < At(base, p.seq) /\ n \in SeqNum /\ b < Half
      BY DEF Behind
    <2>2. p.seq \in SeqNum /\ p.len \in Nat /\ At(base, p.seq) + p.len < Half
      BY <2>1 DEF Within, Pieces
    <2>3. At(base, p.seq) \in Nat /\ b \in Nat
      BY <2>1, <2>2, AtType
    <2>4. At(base, p.seq) < Half
      BY <2>2, <2>3, SpaceType
    <2> QED BY <2>1, <2>2, <2>3, <2>4, AtDistance
  <1>2. \A e \in EndsOf(n, P) : At(base, e) \in Nat /\ At(base, e) < Half /\ Distance(n, e) = At(base, e) - b
    BY EndsPlaces
  <1>3. Before = {e \in EndsOf(n, P) : At(base, e) <= At(base, p.seq)}
    BY <1>1, <1>2
  <1>4. n \in Before
    BY <1>1, <1>3 DEF EndsOf
  <1> HIDE DEF b
  <1>5. \E e \in Before : \A f \in Before : Distance(n, f) <= Distance(n, e)
    <2> DEFINE T == {Half - At(base, e) : e \in Before}
    <2>1. T \in SUBSET Nat /\ T # {}
      BY <1>2, <1>3, <1>4, SpaceType
    <2>2. PICK m \in T : \A k \in T : m <= k
      <3> HIDE DEF T
      <3> QED BY <2>1, LeastNumber
    <2>3. PICK e \in Before : m = Half - At(base, e)
      OBVIOUS
    <2>4. ASSUME NEW f \in Before PROVE Distance(n, f) <= Distance(n, e)
      <3>1. m <= Half - At(base, f)
        BY <2>2
      <3>2. e \in EndsOf(n, P) /\ f \in EndsOf(n, P)
        OBVIOUS
      <3> HIDE DEF T, Before
      <3> QED BY <1>1, <1>2, <2>3, <3>1, <3>2, SpaceType
    <2> QED BY <2>4
  <1>6. l \in Before /\ \A f \in Before : Distance(n, f) <= Distance(n, l)
    <2>1. l = CHOOSE e \in Before : \A f \in Before : Distance(n, f) <= Distance(n, e)
      BY DEF EndBefore
    <2> HIDE DEF l, Before
    <2> QED BY <1>5, <2>1
  <1> HIDE DEF l
  <1>7. ASSUME NEW e \in EndsOf(n, P), At(base, e) <= At(base, p.seq) PROVE At(base, e) <= At(base, l)
    <2>1. e \in Before /\ l \in EndsOf(n, P)
      BY <1>3, <1>6, <1>7
    <2>2. Distance(n, e) <= Distance(n, l)
      BY <1>6, <2>1
    <2> QED BY <1>1, <1>2, <2>1, <2>2
  <1> QED BY <1>3, <1>6, <1>7 DEF l

\* From the last end before a piece up to the piece nothing is buffered, and every
\* place before a buffered one, but behind n, is buffered or in such a hole.
LEMMA HolesPlaces ==
  ASSUME NEW base \in SeqNum, NEW n, NEW P, Behind(base, n, P), NEW x \in Int
  PROVE  /\ \A p \in P : At(base, EndBefore(n, P, p)) <= x /\ x < At(base, p.seq) =>
              /\ x \notin CellsOf(base, P) /\ At(base, n) <= x /\ x < Half
              /\ At(base, p.seq) \in CellsOf(base, P)
         /\ x \notin CellsOf(base, P) /\ At(base, n) <= x /\ (\E h \in CellsOf(base, P) : x <= h) =>
              \E p \in P : At(base, EndBefore(n, P, p)) <= x /\ x < At(base, p.seq)
  <1> DEFINE b == At(base, n)
             L(p) == At(base, EndBefore(n, P, p))
             C == CellsOf(base, P)
  <1>1. \A p \in P : /\ Within(base, p) /\ b < At(base, p.seq) /\ At(base, p.seq) \in Nat
                     /\ p.len \in Nat \ {0} /\ At(base, p.seq) + p.len < Half
                     /\ Cells(base, p) = At(base, p.seq) .. At(base, p.seq) + p.len - 1
                     /\ At(base, p.seq) \in Cells(base, p)
    BY CellsOfOne DEF Behind, Within, Cells
  <1>2. b \in Nat
    BY AtType DEF Behind
  <1>3. \A e \in EndsOf(n, P) : /\ At(base, e) \in Nat /\ b <= At(base, e)
                                /\ e = n \/ \E p \in P : At(base, e) = At(base, p.seq) + p.len
    BY EndsPlaces
  <1>4. \A p \in P : \E e \in EndsOf(n, P) : At(base, e) = At(base, p.seq) + p.len
    BY EndsPlaces
  <1>5. ASSUME NEW p \in P
        PROVE  /\ EndBefore(n, P, p) \in EndsOf(n, P) /\ L(p) <= At(base, p.seq)
               /\ \A e \in EndsOf(n, P) : At(base, e) <= At(base, p.seq) => At(base, e) <= L(p)
    BY EndBeforePlace
  <1>6. ASSUME NEW p \in P, L(p) <= x, x < At(base, p.seq)
        PROVE  x \notin C /\ b <= x /\ x < Half /\ At(base, p.seq) \in C
    <2>1. L(p) \in Nat /\ b <= L(p)
      BY <1>3, <1>5
    <2>2. b <= x /\ x < Half
      BY <1>1, <1>2, <1>6, <2>1, SpaceType
    <2>3. ASSUME x \in C PROVE FALSE
      <3>1. PICK q \in P : x \in Cells(base, q)
        BY <2>3 DEF CellsOf
      <3>2. At(base, q.seq) <= x /\ x < At(base, q.seq) + q.len
        BY <1>1, <3>1
      <3>3. q # p
        BY <1>1, <1>6, <3>2
      <3>4. CASE At(base, q.seq) + q.len <= At(base, p.seq)
        <4>1. At(base, q.seq) + q.len <= L(p)
          BY <1>4, <1>5, <3>4
        <4> QED BY <1>1, <1>6, <2>1, <3>2, <4>1
      <3>5. CASE ~ (At(base, q.seq) + q.len <= At(base, p.seq))
        <4>1. At(base, p.seq) \in Cells(base, q)
          BY <1>1, <1>6, <3>2, <3>5
        <4>2. Cells(base, p) \cap Cells(base, q) = {}
          BY <3>3 DEF Behind
        <4> QED BY <1>1, <4>1, <4>2
      <3> QED BY <3>4, <3>5
    <2> QED BY <1>1, <2>2, <2>3 DEF CellsOf
  <1>7. ASSUME x \notin C, b <= x, NEW h0 \in C, x <= h0
        PROVE  \E p \in P : L(p) <= x /\ x < At(base, p.seq)
    <2> DEFINE T == {h \in C : x <= h}
    <2>1. C \subseteq Nat
      <3>1. C \subseteq 0 .. Half - 1
        BY <1>1, CellsFinite
      <3> QED BY <3>1
    <2>2. PICK h \in T : \A k \in T : h <= k
      <3>1. T \in SUBSET Nat /\ T # {}
        BY <1>7, <2>1
      <3> HIDE DEF T
      <3> QED BY <3>1, LeastNumber
    <2>3. PICK p \in P : h \in Cells(base, p)
      BY DEF CellsOf
    <2>4. x <= h /\ x # h /\ h \in Nat
      BY <1>7, <2>1
    <2>5. h = At(base, p.seq)
      <3> SUFFICES ASSUME h # At(base, p.seq) PROVE FALSE
        OBVIOUS
      <3>1. h - 1 \in Cells(base, p) /\ x <= h - 1
        BY <1>1, <2>3, <2>4
      <3>2. h - 1 \in T
        BY <3>1 DEF CellsOf
      <3>3. h <= h - 1
        BY <2>2, <3>2
      <3> QED BY <2>4, <3>3
    <2>6. L(p) <= x
      <3> DEFINE l == EndBefore(n, P, p)
      <3>1. l \in EndsOf(n, P) /\ At(base, l) <= h /\ At(base, l) \in Nat
        BY <1>3, <1>5, <2>5
      <3>2. CASE l = n
        BY <1>7, <3>2
      <3>3. CASE l # n
        <4>1. PICK q \in P : At(base, l) = At(base, q.seq) + q.len
          BY <1>3, <3>1, <3>3
        <4> DEFINE k == At(base, q.seq) + q.len - 1
        <4>2. k \in Cells(base, q) /\ k \in Nat /\ At(base, l) = k + 1
          <5> HIDE DEF l
          <5>1. /\ At(base, q.seq) \in Nat /\ q.len \in Nat \ {0}
                /\ Cells(base, q) = At(base, q.seq) .. At(base, q.seq) + q.len - 1
            BY <1>1
          <5>2. k \in At(base, q.seq) .. At(base, q.seq) + q.len - 1
            BY <5>1
          <5> QED BY <4>1, <5>1, <5>2
        <4>3. SUFFICES ASSUME ~ (At(base, l) <= x) PROVE FALSE
          OBVIOUS
        <4> HIDE DEF k, l
        <4>4. x <= k
          BY <4>2, <4>3
        <4>5. k \in T
          BY <4>2, <4>4 DEF CellsOf
        <4>6. h <= k
          BY <2>2, <4>5
        <4> QED BY <2>4, <3>1, <4>2, <4>6
      <3> QED BY <3>2, <3>3
    <2> QED BY <2>4, <2>5, <2>6
  <1> QED BY <1>6, <1>7

\* missing_ranges: the holes it reports are the places before the last buffered one
\* that are not buffered, and there are some as long as a piece waits.
LEMMA GapsPlaces ==
  ASSUME NEW base \in SeqNum, NEW s, s.next_seq # NoSeq, Behind(base, s.next_seq, s.pending)
  PROVE  LET held == Positions(s.pending, s.next_seq)
             far  == {d \in 0 .. Half - 1 : \E h \in held : d <= h}
         IN  /\ UNION {Distance(s.next_seq, g[1]) .. Distance(s.next_seq, g[1]) + g[2] - 1 : g \in Gaps(s)}
                  = far \ held
             /\ (Gaps(s) = {}) <=> (s.pending = {})
  <1> DEFINE n == s.next_seq
             P == s.pending
             b == At(base, n)
             C == CellsOf(base, P)
             l(p) == EndBefore(n, P, p)
             held == Positions(P, n)
             far  == {d \in 0 .. Half - 1 : \E h \in held : d <= h}
             G == Gaps(s)
             Hole(g) == Distance(n, g[1]) .. Distance(n, g[1]) + g[2] - 1
             U == UNION {Hole(g) : g \in G}
  <1>1. n \in SeqNum /\ b \in Nat /\ b < Half /\ \A p \in P : Within(base, p)
    BY AtType DEF Behind
  <1>2. \A p \in P : /\ p.seq \in SeqNum /\ At(base, p.seq) \in Nat /\ At(base, p.seq) < Half
                     /\ b < At(base, p.seq)
    <2> TAKE p \in P
    <2>1. Within(base, p) /\ b < At(base, p.seq)
      BY DEF Behind
    <2>2. p.seq \in SeqNum /\ p.len \in Nat /\ At(base, p.seq) + p.len < Half
      BY <2>1 DEF Within, Pieces
    <2>3. At(base, p.seq) \in Nat
      BY <2>2, AtType
    <2>4. At(base, p.seq) < Half
      BY <2>2, <2>3, SpaceType
    <2> QED BY <2>1, <2>2, <2>3, <2>4
  <1>3. \A p \in P : /\ l(p) \in SeqNum /\ At(base, l(p)) \in Nat /\ At(base, l(p)) < Half
                     /\ Distance(n, l(p)) = At(base, l(p)) - b
                     /\ At(base, l(p)) <= At(base, p.seq)
    <2> TAKE p \in P
    <2>1. l(p) \in EndsOf(n, P) /\ At(base, l(p)) <= At(base, p.seq)
      BY EndBeforePlace
    <2> HIDE DEF l
    <2> QED BY <2>1, EndsPlaces
  <1>4. \A p \in P : Distance(l(p), p.seq) = At(base, p.seq) - At(base, l(p))
    BY <1>2, <1>3, AtDistance
  <1>5. C \subseteq 0 .. Half - 1 /\ held = {x - b : x \in C}
    BY <1>1, CellsFinite, BytesPlaces
  <1>6. G = {<<l(p), Distance(l(p), p.seq)>> : p \in {q \in P : SeqBefore(l(q), q.seq)}}
    BY GapsAre
  <1>7. \A p \in P : SeqBefore(l(p), p.seq) <=> At(base, l(p)) < At(base, p.seq)
    BY <1>2, <1>3, <1>4 DEF SeqBefore
  <1>8. \A p \in P : Hole(<<l(p), Distance(l(p), p.seq)>>) = At(base, l(p)) - b .. At(base, p.seq) - b - 1
    <2> TAKE p \in P
    <2>1. Hole(<<l(p), Distance(l(p), p.seq)>>)
            = Distance(n, l(p)) .. Distance(n, l(p)) + Distance(l(p), p.seq) - 1
      OBVIOUS
    <2>2. /\ Distance(n, l(p)) = At(base, l(p)) - b
          /\ Distance(l(p), p.seq) = At(base, p.seq) - At(base, l(p))
          /\ At(base, l(p)) \in Nat /\ At(base, p.seq) \in Nat
      BY <1>2, <1>3, <1>4
    <2>3. Distance(n, l(p)) + Distance(l(p), p.seq) - 1 = At(base, p.seq) - b - 1
      <3> HIDE DEF l, n, b
      <3> QED BY <1>1, <2>2
    <2> HIDE DEF l, n, b, Hole
    <2> QED BY <2>1, <2>2, <2>3
  <1> HIDE DEF l, Hole, G
  <1>9. ASSUME NEW x \in Int
        PROVE  /\ \A p \in P : At(base, l(p)) <= x /\ x < At(base, p.seq) =>
                    x \notin C /\ b <= x /\ x < Half /\ At(base, p.seq) \in C
               /\ x \notin C /\ b <= x /\ (\E h \in C : x <= h) =>
                    \E p \in P : At(base, l(p)) <= x /\ x < At(base, p.seq)
    BY HolesPlaces DEF l
  <1> HIDE DEF n, P, b, C, held
  <1>10. \A x \in Int : x - b \in held <=> x \in C
    <2> TAKE x \in Int
    <2>1. ASSUME x - b \in held PROVE x \in C
      <3>1. PICK y \in C : x - b = y - b
        BY <1>5, <2>1
      <3>2. y \in Int
        BY <1>5
      <3>3. x = y
        BY <1>1, <3>1, <3>2
      <3> QED BY <3>3
    <2>2. ASSUME x \in C PROVE x - b \in held
      BY <1>5, <2>2
    <2> QED BY <2>1, <2>2
  <1>11. ASSUME NEW d \in U PROVE d \in far \ held
    <2>1. PICK p \in P : d \in Hole(<<l(p), Distance(l(p), p.seq)>>)
      BY <1>6
    <2>2. d \in At(base, l(p)) - b .. At(base, p.seq) - b - 1
      BY <1>8, <2>1
    <2> DEFINE x == d + b
    <2>3. x \in Int /\ At(base, l(p)) <= x /\ x < At(base, p.seq) /\ d \in Int /\ x - b = d
      BY <1>1, <1>2, <1>3, <2>2
    <2> HIDE DEF x
    <2>4. x \notin C /\ b <= x /\ x < Half /\ At(base, p.seq) \in C
      BY <1>9, <2>3
    <2>5. d \notin held
      BY <1>10, <2>3, <2>4
    <2>6. At(base, p.seq) - b \in held /\ d <= At(base, p.seq) - b
      BY <1>1, <1>2, <1>10, <2>3, <2>4 DEF x
    <2>7. d \in 0 .. Half - 1
      BY <1>1, <2>3, <2>4, SpaceType DEF x
    <2> QED BY <2>5, <2>6, <2>7
  <1>12. ASSUME NEW d \in far \ held PROVE d \in U
    <2>1. PICK h \in held : d <= h
      OBVIOUS
    <2>2. PICK k \in C : h = k - b
      BY <1>5, <2>1
    <2> DEFINE x == d + b
    <2>3. d \in Nat /\ k \in Int /\ x \in Int /\ b <= x /\ x <= k /\ x - b = d
      BY <1>1, <1>5, <2>1, <2>2
    <2> HIDE DEF x
    <2>4. x \notin C
      BY <1>10, <2>3
    <2>5. PICK p \in P : At(base, l(p)) <= x /\ x < At(base, p.seq)
      BY <1>9, <2>3, <2>4
    <2>6. SeqBefore(l(p), p.seq)
      BY <1>2, <1>3, <1>7, <2>3, <2>5
    <2>7. <<l(p), Distance(l(p), p.seq)>> \in G
      BY <1>6, <2>6
    <2>8. d \in At(base, l(p)) - b .. At(base, p.seq) - b - 1
      BY <1>1, <1>2, <1>3, <2>3, <2>5 DEF x
    <2> QED BY <1>8, <2>7, <2>8
  <1>13. U = far \ held
    <2> HIDE DEF U, far
    <2> QED BY <1>11, <1>12
  <1>14. ASSUME NEW p \in P PROVE G # {}
    <2>1. At(base, p.seq) \in C
      BY <1>1, CellsOfOne DEF C, CellsOf
    <2>2. b \notin C
      <3> SUFFICES ASSUME b \in C PROVE FALSE
        OBVIOUS
      <3>1. PICK q \in P : b \in Cells(base, q)
        BY DEF C, CellsOf
      <3>2. b \in At(base, q.seq) .. At(base, q.seq) + q.len - 1
        BY <3>1 DEF Cells
      <3>3. At(base, q.seq) <= b
        BY <3>2
      <3> QED BY <1>1, <1>2, <3>3
    <2>3. 0 \notin held /\ At(base, p.seq) - b \in held
      BY <1>1, <1>2, <1>10, <2>1, <2>2
    <2>4. 0 \in far
      <3>1. 0 \in 0 .. Half - 1 /\ 0 <= At(base, p.seq) - b
        BY <1>1, <1>2, SpaceType
      <3> QED BY <2>3, <3>1
    <2>5. 0 \in U
      BY <1>13, <2>3, <2>4
    <2> QED BY <2>5
  <1>15. P = {} => G = {}
    BY <1>6
  <1>16. U = far \ held /\ (G = {} <=> P = {})
    <2> HIDE DEF U, far
    <2> QED BY <1>13, <1>14, <1>15
  <1> QED BY <1>16 DEF U, far, held, n, P, G, Hole

-----------------------------------------------------------------------------
(* A capture that fits the window                                           *)

\* The numbers of a run of bytes are those whose places it takes.
LEMMA NumbersPlaces ==
  ASSUME NEW base \in SeqNum, NEW seq \in SeqNum, NEW len \in Nat,
         len = 0 \/ At(base, seq) + len < Half, NEW x
  PROVE  x \in {(seq + i) % SeqSpace : i \in 0 .. len - 1}
           <=> x \in SeqNum /\ At(base, x) \in At(base, seq) .. At(base, seq) + len - 1
  <1> DEFINE a == At(base, seq)
  <1>1. a \in Nat /\ Half \in Nat /\ SeqSpace = 2 * Half /\ (len = 0 \/ a + len < Half)
    BY AtType, SpaceType
  <1>2. ASSUME NEW i \in 0 .. len - 1
        PROVE  (seq + i) % SeqSpace \in SeqNum /\ At(base, (seq + i) % SeqSpace) = a + i
    <2>1. a + i \in 0 .. SeqSpace - 1 /\ i \in Int
      <3> HIDE DEF a
      <3> QED BY <1>1
    <2> QED BY <2>1, AtShift
  <1>3. ASSUME x \in SeqNum, At(base, x) \in a .. a + len - 1
        PROVE  x \in {(seq + i) % SeqSpace : i \in 0 .. len - 1}
    <2> DEFINE i == At(base, x) - a
    <2>1. i \in 0 .. len - 1 /\ a + i = At(base, x)
      <3> HIDE DEF a
      <3> QED BY <1>1, <1>3
    <2> HIDE DEF i
    <2>2. (seq + i) % SeqSpace = x
      BY <1>2, <1>3, <2>1, AtUnique
    <2> QED BY <2>1, <2>2
  <1>4. ASSUME x \in {(seq + i) % SeqSpace : i \in 0 .. len - 1}
        PROVE  x \in SeqNum /\ At(base, x) \in a .. a + len - 1
    <2>1. PICK i \in 0 .. len - 1 : x = (seq + i) % SeqSpace
      BY <1>4
    <2>2. x \in SeqNum /\ At(base, x) = a + i
      BY <1>2, <2>1
    <2> HIDE DEF a
    <2> QED BY <1>1, <2>2
  <1> QED BY <1>3, <1>4

\* The same of a piece, and of a segment.
LEMMA PiecePlaces ==
  ASSUME NEW base \in SeqNum, NEW p, Within(base, p), NEW x
  PROVE  x \in SeqsOf(p) <=> x \in SeqNum /\ At(base, x) \in Cells(base, p)
  <1>1. p.seq \in SeqNum /\ p.len \in Nat /\ At(base, p.seq) + p.len < Half
    BY DEF Within, Pieces
  <1> QED BY <1>1, NumbersPlaces DEF SeqsOf, Cells

\* The numbers a segment carries are those whose places it takes.
LEMMA SegmentPlaces ==
  ASSUME NEW base \in SeqNum, FitsFrom(base), feeds \in Seq(Inputs), NEW j \in 1 .. Len(feeds), NEW x
  PROVE  /\ x \in Carried(j) <=> x \in SeqNum /\ At(base, x) \in CarriedCells(base, feeds, j)
         /\ x \in Carried(j) => At(base, x) \in Nat /\ At(base, x) < Half /\ feeds[j].len > 0
  <1> DEFINE seg == feeds[j]
  <1>1. seg.seq \in SeqNum /\ seg.len \in Nat /\ seg \in Inputs
    BY InputsAssumption
  <1>2. seg.len > 0 => At(base, seg.seq) + seg.len < Half
    <2> SUFFICES ASSUME seg.len > 0 PROVE At(base, seg.seq) + seg.len < Half
      OBVIOUS
    <2>1. ((seg.seq - base) % SeqSpace) + (IF seg.len = 0 THEN 1 ELSE seg.len) < Half
      BY <1>1 DEF FitsFrom
    <2> QED BY <1>1, <2>1 DEF At
  <1>3. x \in Carried(j) <=> x \in SeqNum /\ At(base, x) \in At(base, seg.seq) .. At(base, seg.seq) + seg.len - 1
    <2>1. seg.len = 0 \/ At(base, seg.seq) + seg.len < Half
      BY <1>1, <1>2
    <2> HIDE DEF seg
    <2>2. x \in {(seg.seq + i) % SeqSpace : i \in 0 .. seg.len - 1}
            <=> x \in SeqNum /\ At(base, x) \in At(base, seg.seq) .. At(base, seg.seq) + seg.len - 1
      BY <1>1, <2>1, NumbersPlaces
    <2> QED BY <2>2 DEF Carried, seg
  <1>4. At(base, seg.seq) \in Nat
    BY <1>1, AtType
  <1>5. ASSUME x \in Carried(j) PROVE At(base, x) \in Nat /\ At(base, x) < Half /\ seg.len > 0
    <2>1. x \in SeqNum /\ At(base, x) \in At(base, seg.seq) .. At(base, seg.seq) + seg.len - 1
      BY <1>3, <1>5
    <2>2. seg.len > 0
      BY <1>1, <1>4, <2>1
    <2> HIDE DEF seg
    <2> QED BY <1>1, <1>2, <1>4, <2>1, <2>2, SpaceType
  <1> QED BY <1>3, <1>5 DEF CarriedCells

\* The empty stream is in place.
LEMMA InitPlaced ==
  ASSUME NEW base \in SeqNum, Init
  PROVE  WindowInv(base)
  <1>1. ReassemblyInv
    BY InitInv
  <1>2. /\ stream.next_seq = NoSeq /\ stream.pending = {} /\ stream.evicted = {}
        /\ stream.delivered = <<>> /\ stream.pending_bytes = 0
    BY DEF Init, EmptyStream
  <1>3. Handed(stream) = {} /\ CellsOf(base, stream.pending) = {}
    BY <1>2 DEF Handed, CellsOf
  <1>4. Cardinality(CellsOf(base, stream.pending)) = 0
    BY <1>3, FS_EmptySet
  <1>5. Placed(base, stream, Start) /\ Accounted(base, stream, feeds, Start) /\ EarliestUsed(base, stream, feeds)
    BY <1>2, <1>3 DEF Placed, Accounted, EarliestUsed
  <1>6. StreamPlaced(base, stream, feeds, Start)
    BY <1>1, <1>2, <1>4, <1>5 DEF StreamPlaced, ReassemblyInv
  <1> QED BY <1>1, <1>2, <1>6 DEF WindowInv, Settled

\* A segment keeps everything in place ...
LEMMA FeedPlacedStep ==
  ASSUME NEW base \in SeqNum, FitsFrom(base), WindowInv(base), NEW seg \in Inputs, Feed(seg)
  PROVE  /\ WindowInv(base)' /\ feeds' \in Seq(Inputs) /\ feeds'[Len(feeds')] = seg
         /\ Fed(base, stream, stream', feeds', Start')
  <1>1. ReassemblyInv /\ ReassemblyInv'
    BY FeedStep DEF WindowInv
  <1>2. /\ feeds \in Seq(Inputs) /\ Len(feeds) < MaxFeeds /\ feeds' = Append(feeds, seg)
        /\ stream' = FeedSegment(stream, seg, Len(feeds) + 1)
        /\ stream.next_seq = NoSeq <=> Starters = {}
    BY <1>1 DEF ReassemblyInv, Feed
  <1>3. /\ Starters # {} => Start' = Start
        /\ Starters = {} /\ StartsStream(seg) =>
             Start' = IF seg.len = 0 THEN (seg.seq + 1) % SeqSpace ELSE seg.seq
    BY <1>2, StartAfter
  <1>4. StreamPlaced(base, stream, feeds, Start')
    <2>1. StreamPlaced(base, stream, feeds, Start)
      BY DEF WindowInv
    <2>2. CASE Starters # {}
      BY <1>3, <2>1, <2>2
    <2>3. CASE Starters = {}
      <3>1. stream.next_seq = NoSeq
        BY <1>2, <2>3
      <3> QED BY <2>1, <3>1 DEF StreamPlaced, StreamInv, Placed, Accounted
    <2> QED BY <2>2, <2>3
  <1>5. NothingYet(stream, feeds)
    <2> SUFFICES ASSUME stream.next_seq = NoSeq, NEW j \in 1 .. Len(feeds) PROVE feeds[j].len = 0
      BY DEF NothingYet
    <2>1. j \notin Starters /\ DOMAIN feeds = 1 .. Len(feeds) /\ feeds[j] \in Inputs
      BY <1>2
    <2>2. ~ (feeds[j].len > 0)
      BY <2>1 DEF Starters
    <2> QED BY <2>1, <2>2, InputsAssumption
  <1> DEFINE f == feeds'
             begin == Start'
             id == Len(feeds) + 1
  <1>6. NewSegment(base, stream, feeds, seg, f, id, begin)
    BY <1>2, <1>3, <1>4, <1>5 DEF NewSegment, WindowInv
  <1> HIDE DEF f, begin, id
  <1>7. Fed(base, stream, FeedSegment(stream, seg, id), f, begin)
    BY ONLY base \in SeqNum, FitsFrom(base), <1>6, FeedPlaced
  <1>8. Fed(base, stream, stream', feeds', Start')
    BY <1>2, <1>7 DEF f, begin, id
  <1>9. WindowInv(base)'
    BY <1>1, <1>8 DEF WindowInv, Fed
  <1>10. feeds' \in Seq(Inputs) /\ feeds'[Len(feeds')] = seg
    BY <1>2
  <1> QED BY <1>8, <1>9, <1>10

\* ... and so does taking what is ready.
LEMMA TakePlacedStep ==
  ASSUME NEW base \in SeqNum, FitsFrom(base), WindowInv(base), TakeContiguous
  PROVE  WindowInv(base)' /\ stream'.overflow = stream.overflow
  <1> DEFINE t == Advance(stream)
  <1>1. feeds' = feeds /\ stream' = [t EXCEPT !.ready = 0]
    BY DEF TakeContiguous, TakeReady
  <1>2. Start' = Start /\ ReassemblyInv'
    BY <1>1, TakeStep DEF Starters, Start, WindowInv
  <1>3. /\ StreamPlaced(base, t, feeds, Start) /\ Settled(t)
        /\ t.evicted = stream.evicted /\ t.overflow = stream.overflow
    <2>1. StreamPlaced(base, stream, feeds, Start) /\ feeds \in Seq(Inputs)
      BY DEF WindowInv, ReassemblyInv
    <2> QED BY <2>1, AdvancePlaced
  <1> HIDE DEF t
  <1>4. /\ stream' \in Streams /\ stream'.next_seq = t.next_seq /\ stream'.delivered = t.delivered
        /\ stream'.pending = t.pending /\ stream'.evicted = t.evicted
        /\ stream'.pending_bytes = t.pending_bytes /\ stream'.overflow = t.overflow
    BY <1>1, <1>3 DEF StreamPlaced, StreamInv, Streams
  <1>5. StreamPlaced(base, stream', feeds, Start)
    BY <1>3, <1>4, NotedPlaced
  <1>6. Settled(stream') /\ (~ stream'.overflow => stream'.evicted = {})
    BY <1>3, <1>4 DEF Settled, WindowInv
  <1> QED BY <1>1, <1>2, <1>3, <1>4, <1>5, <1>6 DEF WindowInv

\* Every step keeps everything in place.
LEMMA WindowStep ==
  ASSUME NEW base \in SeqNum, FitsFrom(base), WindowInv(base), [Next]_vars
  PROVE  WindowInv(base)'
  <1>1. CASE TakeContiguous
    BY <1>1, TakePlacedStep
  <1>2. ASSUME NEW seg \in Inputs, Feed(seg) PROVE WindowInv(base)'
    BY <1>2, FeedPlacedStep
  <1>3. CASE UNCHANGED vars
    BY <1>3 DEF vars, WindowInv, ReassemblyInv, Starters, Start
  <1> QED BY <1>1, <1>2, <1>3 DEF Next

\* What the invariant says of the pieces of a state.
LEMMA PiecesWithin ==
  ASSUME NEW base \in SeqNum, FitsFrom(base), WindowInv(base)
  PROVE  /\ feeds \in Seq(Inputs) /\ DOMAIN feeds = 1 .. Len(feeds) /\ Delivered = Handed(stream)
         /\ \A p \in pending \cup Delivered \cup stream.evicted :
              Within(base, p) /\ p.feed \in 1 .. Len(feeds)
  <1>1. feeds \in Seq(Inputs) /\ stream.delivered \in Seq(Pieces)
    BY DEF WindowInv, ReassemblyInv, StreamInv, Streams
  <1>2. Delivered = Handed(stream)
    BY <1>1 DEF Delivered, Handed, delivered
  <1>3. \A p \in pending \cup Delivered \cup stream.evicted : CutFrom(p, feeds)
    BY <1>2 DEF WindowInv, StreamPlaced, StreamInv, AllCut, Handed, pending
  <1>4. \A p \in pending \cup Delivered \cup stream.evicted : Within(base, p)
    BY <1>1, <1>3, CutWithin
  <1> QED BY <1>1, <1>2, <1>3, <1>4 DEF CutFrom

\* The holes are reported exactly in each state that is in place ...
LEMMA GapsFromWindow ==
  ASSUME NEW base \in SeqNum, FitsFrom(base), WindowInv(base)
  PROVE  GapsExact
  <1> SUFFICES ASSUME next_seq # NoSeq PROVE GapsExact
    BY DEF GapsExact
  <1>1. Behind(base, stream.next_seq, stream.pending)
    <2>1. stream.next_seq \in SeqNum /\ At(base, stream.next_seq) < Half
      BY DEF next_seq, WindowInv, StreamPlaced, StreamInv, Streams, Placed
    <2>2. \A p, q \in stream.pending : p # q => Cells(base, p) \cap Cells(base, q) = {}
      BY DEF WindowInv, StreamPlaced, Placed
    <2>3. ASSUME NEW p \in stream.pending
          PROVE  Within(base, p) /\ At(base, stream.next_seq) < At(base, p.seq)
      <3>1. Within(base, p)
        BY PiecesWithin DEF pending
      <3>2. p.seq \in SeqNum
        BY <3>1 DEF Within, Pieces
      <3>3. At(base, stream.next_seq) <= At(base, p.seq)
        BY DEF next_seq, WindowInv, StreamPlaced, Placed
      <3>4. p.seq # stream.next_seq
        BY DEF WindowInv, Settled
      <3>5. At(base, p.seq) # At(base, stream.next_seq)
        BY <2>1, <3>2, <3>4, AtUnique
      <3>6. At(base, p.seq) \in Nat /\ At(base, stream.next_seq) \in Nat
        BY <2>1, <3>2, AtType
      <3> QED BY <3>1, <3>3, <3>5, <3>6
    <2> QED BY <2>1, <2>2, <2>3 DEF Behind
  <1>2. \A p \in pending : SeqBefore(next_seq, p.seq)
    <2> TAKE p \in pending
    <2>1. /\ Within(base, p) /\ At(base, next_seq) < At(base, p.seq)
          /\ next_seq \in SeqNum /\ At(base, next_seq) < Half
      BY <1>1 DEF Behind, pending, next_seq
    <2>2. p.seq \in SeqNum /\ p.len \in Nat /\ At(base, p.seq) + p.len < Half
      BY <2>1 DEF Within, Pieces
    <2>3. At(base, p.seq) \in Nat /\ At(base, next_seq) \in Nat
      BY <2>1, <2>2, AtType
    <2>4. At(base, p.seq) < Half
      BY <2>2, <2>3, SpaceType
    <2>5. Distance(next_seq, p.seq) = At(base, p.seq) - At(base, next_seq)
      BY <2>1, <2>2, <2>4, AtDistance
    <2> QED BY <2>1, <2>3, <2>5 DEF SeqBefore
  <1>3. ASSUME NEW p \in pending, NEW q \in pending, p # q PROVE SeqsOf(p) \cap SeqsOf(q) = {}
    <2>1. Within(base, p) /\ Within(base, q) /\ Cells(base, p) \cap Cells(base, q) = {}
      BY <1>1, <1>3 DEF Behind, pending
    <2>2. \A x \in SeqsOf(p) : At(base, x) \in Cells(base, p)
      BY <2>1, PiecePlaces
    <2>3. \A x \in SeqsOf(q) : At(base, x) \in Cells(base, q)
      BY <2>1, PiecePlaces
    <2> QED BY <2>1, <2>2, <2>3
  <1>4. LET held == Positions(pending, next_seq)
            far  == {d \in 0 .. Half - 1 : \E h \in held : d <= h}
        IN  /\ UNION {Distance(next_seq, g[1]) .. Distance(next_seq, g[1]) + g[2] - 1 : g \in Gaps(stream)}
                 = far \ held
            /\ (Gaps(stream) = {}) <=> (pending = {})
    BY <1>1, GapsPlaces DEF pending, next_seq
  <1> QED BY <1>2, <1>3, <1>4 DEF GapsExact

\* ... nothing is lost in it ...
LEMMA NoLossFromWindow ==
  ASSUME NEW base \in SeqNum, FitsFrom(base), WindowInv(base)
  PROVE  NoSilentLoss
  <1> SUFFICES ASSUME ~ stream.overflow, NEW j \in 1 .. Len(feeds), NEW x \in Carried(j),
                      Distance(Start, x) >= 0
               PROVE  \E p \in pending \cup Delivered : x \in SeqsOf(p)
    BY PiecesWithin DEF NoSilentLoss
  <1>1. /\ feeds \in Seq(Inputs) /\ Delivered = Handed(stream)
        /\ \A p \in pending \cup Delivered : Within(base, p)
    BY PiecesWithin
  <1>2. /\ x \in SeqNum /\ At(base, x) \in CarriedCells(base, feeds, j)
        /\ At(base, x) \in Nat /\ At(base, x) < Half /\ feeds[j].len > 0
    BY <1>1, SegmentPlaces
  <1>3. stream.next_seq # NoSeq
    <2>1. j \in Starters
      BY <1>1, <1>2 DEF Starters
    <2> QED BY <2>1 DEF WindowInv, ReassemblyInv
  <1>4. /\ Start \in SeqNum /\ stream.next_seq \in SeqNum /\ At(base, stream.next_seq) < Half
        /\ At(base, Start) <= At(base, stream.next_seq)
    BY <1>3 DEF WindowInv, StreamPlaced, StreamInv, Streams, Placed
  <1>5. At(base, Start) \in Nat /\ At(base, Start) < Half
    BY <1>4, AtType, SpaceType
  <1>6. At(base, Start) <= At(base, x)
    <2>1. Distance(Start, x) = At(base, x) - At(base, Start)
      BY <1>2, <1>4, <1>5, AtDistance
    <2> QED BY <1>2, <1>5, <2>1
  <1>7. At(base, x) \in CellsOf(base, stream.pending \cup Handed(stream) \cup stream.evicted)
    BY <1>2, <1>3, <1>6 DEF WindowInv, StreamPlaced, Accounted
  <1>8. stream.evicted = {}
    BY DEF WindowInv
  <1>9. PICK p \in pending \cup Delivered : At(base, x) \in Cells(base, p)
    BY <1>1, <1>7, <1>8 DEF CellsOf, pending
  <1> QED BY <1>1, <1>2, <1>9, PiecePlaces

\* ... and the first copies are in use.
LEMMA FirstCopyFromWindow ==
  ASSUME NEW base \in SeqNum, FitsFrom(base), WindowInv(base), Policy = "FirstWins"
  PROVE  FirstCopyWins
  <1> SUFFICES ASSUME NEW p \in pending \cup Delivered, NEW x \in SeqsOf(p), NEW j \in 1 .. p.feed - 1,
                      x \in Carried(j)
               PROVE  \E e \in stream.evicted : e.feed < p.feed /\ x \in SeqsOf(e)
    BY DEF FirstCopyWins
  <1>1. /\ feeds \in Seq(Inputs) /\ Delivered = Handed(stream)
        /\ \A q \in pending \cup Delivered \cup stream.evicted :
             Within(base, q) /\ q.feed \in 1 .. Len(feeds)
    BY PiecesWithin
  <1>2. j \in 1 .. Len(feeds)
    BY <1>1
  <1>3. x \in SeqNum /\ At(base, x) \in CarriedCells(base, feeds, j)
    BY <1>1, <1>2, SegmentPlaces
  <1>4. At(base, x) \in Cells(base, p)
    BY <1>1, PiecePlaces
  <1>5. PICK e \in stream.evicted : e.feed < p.feed /\ At(base, x) \in Cells(base, e)
    <2>1. EarliestUsed(base, stream, feeds) /\ p \in stream.pending \cup Handed(stream)
      BY <1>1 DEF WindowInv, StreamPlaced, pending
    <2> QED BY <1>3, <1>4, <2>1 DEF EarliestUsed
  <1> QED BY <1>1, <1>3, <1>5, PiecePlaces

\* A step that marks the stream held more than the limits allow.
LEMMA OverflowStep ==
  ASSUME NEW base \in SeqNum, FitsFrom(base), WindowInv(base), [Next]_vars, Policy = "FirstWins",
         stream'.overflow, ~ stream.overflow
  PROVE  LET moved == {delivered'[i] : i \in Len(delivered) + 1 .. Len(delivered')}
             held  == pending' \cup moved \cup (stream'.evicted \ stream.evicted)
             ref   == Expected(stream, feeds'[Len(feeds')])
         IN  \/ Bytes(held, ref) + stream.ready > MaxStreamBuffer
             \/ Cardinality(held) > MaxSegments
  <1>1. CASE TakeContiguous
    BY <1>1, TakePlacedStep
  <1>2. CASE UNCHANGED vars
    BY <1>2 DEF vars
  <1>3. ASSUME NEW seg \in Inputs, Feed(seg)
        PROVE  LET held == HeldOnTheWay(stream, stream')
                   ref  == Expected(stream, feeds'[Len(feeds')])
               IN  \/ Bytes(held, ref) + stream.ready > MaxStreamBuffer
                   \/ Cardinality(held) > MaxSegments
    <2> DEFINE held == HeldOnTheWay(stream, stream')
               ref == Expected(stream, seg)
    <2>1. /\ WindowInv(base)' /\ feeds' \in Seq(Inputs) /\ feeds'[Len(feeds')] = seg
          /\ Fed(base, stream, stream', feeds', Start')
      BY <1>3, FeedPlacedStep
    <2>2. OverBudget(base, stream, stream')
      BY <2>1 DEF Fed
    <2>3. stream \in Streams /\ stream' \in Streams /\ seg.len \in Nat
      BY <2>1, InputsAssumption DEF WindowInv, ReassemblyInv, StreamInv
    <2>4. \A q \in held : CutFrom(q, feeds')
      <3>1. \A i \in Len(stream.delivered) + 1 .. Len(stream'.delivered) : i \in 1 .. Len(stream'.delivered)
        BY <2>3 DEF Streams
      <3>2. AllCut(stream', feeds') /\ \A e \in stream'.evicted : CutFrom(e, feeds')
        BY <2>1 DEF Fed, StreamPlaced, StreamInv
      <3> QED BY <3>1, <3>2 DEF HeldOnTheWay, AllCut
    <2>5. \A q \in held : Within(base, q)
      <3> DEFINE f == feeds'
      <3>1. f \in Seq(Inputs) /\ \A q \in held : CutFrom(q, f)
        BY <2>1, <2>4
      <3> HIDE DEF f, held
      <3> QED BY <3>1, CutWithin
    <2>6. seg.len > 0
      <3> SUFFICES ASSUME seg.len = 0 PROVE FALSE
        BY <2>3
      <3>1. stream' = FeedSegment(stream, seg, Len(feeds) + 1)
        BY <1>3 DEF Feed
      <3>2. stream'.overflow = stream.overflow
        BY <2>3, <3>1 DEF FeedSegment, FeedEmpty, Streams
      <3> QED BY <3>2
    <2>7. ref \in SeqNum /\ At(base, ref) < Half
      <3>1. feeds \in Seq(Inputs)
        BY DEF WindowInv, ReassemblyInv
      <3>2. CASE stream.next_seq = NoSeq
        <4>1. ref = seg.seq /\ seg.seq \in SeqNum
          BY <3>2, InputsAssumption DEF Expected
        <4>2. ((seg.seq - base) % SeqSpace) + (IF seg.len = 0 THEN 1 ELSE seg.len) < Half
          BY <2>6 DEF FitsFrom
        <4>3. At(base, seg.seq) + seg.len < Half /\ At(base, seg.seq) \in Nat
          BY <2>6, <4>1, <4>2, AtType DEF At
        <4> QED BY <2>3, <4>1, <4>3, SpaceType
      <3>3. CASE stream.next_seq # NoSeq
        BY <3>3, <2>3 DEF Expected, Streams, WindowInv, StreamPlaced, Placed
      <3> QED BY <3>2, <3>3
    <2> HIDE DEF ref, held
    <2>8. Bytes(held, ref) = Cardinality(CellsOf(base, held))
      BY <2>5, <2>7, BytesPlaces
    <2>9. Bytes(held, ref) + stream.ready > MaxStreamBuffer \/ Cardinality(held) > MaxSegments
      BY <2>2, <2>8 DEF OverBudget, held
    <2> QED BY <2>1, <2>9 DEF held, ref
  <1>4. ASSUME NEW seg \in Inputs, Feed(seg)
        PROVE  LET moved == {delivered'[i] : i \in Len(delivered) + 1 .. Len(delivered')}
                   held  == pending' \cup moved \cup (stream'.evicted \ stream.evicted)
                   ref   == Expected(stream, feeds'[Len(feeds')])
               IN  \/ Bytes(held, ref) + stream.ready > MaxStreamBuffer
                   \/ Cardinality(held) > MaxSegments
    BY <1>3, <1>4 DEF HeldOnTheWay, delivered, pending
  <1> QED BY <1>1, <1>2, <1>4 DEF Next

\* reassembly.rs:gaps, missing_ranges: whatever the segments, the holes reported are
\* exactly the bytes before the last buffered one that are not buffered, no two pieces
\* overlap, and none waits at the expected byte, while the stream fits the window.
THEOREM GapsReportedExactly == ASSUME Windowed PROVE Spec => []GapsExact
  <1>1. PICK base \in SeqNum : FitsFrom(base)
    BY DEF Windowed
  <1>2. Init => WindowInv(base)
    BY InitPlaced
  <1>3. WindowInv(base) /\ [Next]_vars => WindowInv(base)'
    BY <1>1, WindowStep
  <1>4. WindowInv(base) => GapsExact
    BY <1>1, GapsFromWindow
  <1> QED BY <1>2, <1>3, <1>4, PTL DEF Spec

\* reassembly.rs:feed: a byte captured after the start of the stream is buffered or
\* handed out as long as the stream is not marked BufferOverflow.
THEOREM NothingLostSilently == ASSUME Windowed PROVE Spec => []NoSilentLoss
  <1>1. PICK base \in SeqNum : FitsFrom(base)
    BY DEF Windowed
  <1>2. Init => WindowInv(base)
    BY InitPlaced
  <1>3. WindowInv(base) /\ [Next]_vars => WindowInv(base)'
    BY <1>1, WindowStep
  <1>4. WindowInv(base) => NoSilentLoss
    BY <1>1, NoLossFromWindow
  <1> QED BY <1>2, <1>3, <1>4, PTL DEF Spec

\* reassembly.rs:insert_pending under OverlapPolicy::FirstWins: a later copy of a byte is
\* used only where the budget dropped an earlier one.
THEOREM FirstCopyKept == ASSUME Windowed, Policy = "FirstWins" PROVE Spec => []FirstCopyWins
  <1>1. PICK base \in SeqNum : FitsFrom(base)
    BY DEF Windowed
  <1>2. Init => WindowInv(base)
    BY InitPlaced
  <1>3. WindowInv(base) /\ [Next]_vars => WindowInv(base)'
    BY <1>1, WindowStep
  <1>4. WindowInv(base) => FirstCopyWins
    BY <1>1, FirstCopyFromWindow
  <1> QED BY <1>2, <1>3, <1>4, PTL DEF Spec

\* reassembly.rs:enforce_budget: a stream is marked BufferOverflow only by a segment
\* with which it really held more bytes, or more pieces, than the limits allow.
THEOREM OverflowHasReason ==
  ASSUME Windowed, Policy = "FirstWins" PROVE Spec => OverflowOnlyOverBudget
  <1>1. PICK base \in SeqNum : FitsFrom(base)
    BY DEF Windowed
  <1>2. Init => WindowInv(base)
    BY InitPlaced
  <1>3. WindowInv(base) /\ [Next]_vars => WindowInv(base)'
    BY <1>1, WindowStep
  <1> DEFINE A == stream'.overflow /\ ~ stream.overflow =>
        LET moved == {delivered'[i] : i \in Len(delivered) + 1 .. Len(delivered')}
            held  == pending' \cup moved \cup (stream'.evicted \ stream.evicted)
            ref   == Expected(stream, feeds'[Len(feeds')])
        IN  \/ Bytes(held, ref) + stream.ready > MaxStreamBuffer
            \/ Cardinality(held) > MaxSegments
  <1>4. WindowInv(base) /\ [Next]_vars => [A]_vars
    BY <1>1, OverflowStep
  <1>5. OverflowOnlyOverBudget <=> [][A]_vars
    BY DEF OverflowOnlyOverBudget
  <1> HIDE DEF A
  <1>6. Spec => [][A]_vars
    BY <1>2, <1>3, <1>4, PTL DEF Spec
  <1> QED BY <1>5, <1>6

=============================================================================

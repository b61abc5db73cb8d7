------------------------------ MODULE StreamBuf ------------------------------
(***************************************************************************)
(* One direction of one TCP conversation as packetsage-core reassembles    *)
(* it: the StreamBuf of crates/packetsage-core/src/reassembly.rs, as a     *)
(* record, with the operators that feed it, drain it and describe it.      *)
(* Reassembly drives one stream, Analysis a table of them.                 *)
(*                                                                         *)
(* Sequence numbers wrap modulo SeqSpace (2^32 in the code).  Payload bytes  *)
(* are abstracted to where they came from: a piece records its first       *)
(* sequence number, its length, the feed it was cut from and its offset in *)
(* that feed, so that a wrong slice or a wrong copy of a byte shows.       *)
(* The counters that are only reported (retransmissions, out_of_order) are *)
(* left out; the last verdict stands for them.                             *)
(***************************************************************************)
EXTENDS Integers, Sequences, FiniteSets

CONSTANTS
  SeqSpace,           \* size of the sequence space, even
  MaxStreamBuffer,  \* limits.max_stream_buffer: bytes one direction may hold
  MaxSegments,      \* limits.max_segments_per_stream
  Policy            \* "FirstWins" (the pipeline's) or "LastWins"

Half   == SeqSpace \div 2
SeqNum == 0 .. SeqSpace - 1
Flags  == {"SYN", "FIN", "RST"}

ASSUME StreamAssumption ==
  /\ SeqSpace \in Nat \ {0} /\ SeqSpace % 2 = 0
  /\ MaxStreamBuffer \in Nat /\ MaxSegments \in Nat
  /\ Policy \in {"FirstWins", "LastWins"}

NoSeq == -1

\* next_seq: the byte the stream waits for; pending: the buffered pieces (the
\* code keeps them sorted, they are disjoint); ready: contiguous bytes not taken
\* yet; pending_bytes: the code's own account of the bytes in `pending`.
\* History: delivered, the pieces moved to `ready`; evicted, what the budget dropped.
EmptyStream ==
  [next_seq |-> NoSeq, pending |-> {}, ready |-> 0, pending_bytes |-> 0,
   overflow |-> FALSE, fin_seen |-> FALSE, rst_seen |-> FALSE,
   verdict |-> "none", delivered |-> <<>>, evicted |-> {}]

-----------------------------------------------------------------------------
(* Sequence arithmetic *)

\* The signed distance from a to b, in -Half .. Half - 1.
Distance(a, b) == ((b - a + Half) % SeqSpace) - Half

SeqBefore(a, b) == Distance(a, b) > 0

\* The positions of piece p relative to ref.
Span(p, ref) == Distance(ref, p.seq) .. Distance(ref, p.seq) + p.len - 1

\* The piece at the front of a set of disjoint pieces, as sorted from ref.
FrontPiece(P, ref) ==
  CHOOSE p \in P : \A q \in P : Distance(ref, p.seq) <= Distance(ref, q.seq)

SatSub(a, b) == IF a > b THEN a - b ELSE 0

-----------------------------------------------------------------------------
(* insert_pending: overlaps are cut out of the new piece (first copy wins) *)
(* or out of the buffered ones (last copy wins)                            *)

\* Regression: the cut piece keeps the offset of the whole one.
SubtractKeepingOffset(p, ref, cut) ==
  {[p EXCEPT !.seq = (ref + d) % SeqSpace, !.len = 1] : d \in Span(p, ref) \ cut}

\* What is left of piece p, in one or more pieces, without the positions in cut.
Subtract(p, ref, cut) ==
  LET left == Span(p, ref) \ cut
      runs == {r \in left \X left :
                 /\ r[1] <= r[2] /\ r[1] .. r[2] \subseteq left
                 /\ r[1] - 1 \notin left /\ r[2] + 1 \notin left}
  IN  {[p EXCEPT !.seq = (ref + r[1]) % SeqSpace,
                 !.len = r[2] - r[1] + 1,
                 !.off = p.off + r[1] - Distance(ref, p.seq)] : r \in runs}

Positions(P, ref) == UNION {Span(p, ref) : p \in P}

Bytes(P, ref) == Cardinality(Positions(P, ref))

\* Regression: the overlap policies are swapped.
InsertLastWins(P, ref, p) ==
  <<(UNION {Subtract(q, ref, Span(p, ref)) : q \in P}) \cup {p}, p.len>>

\* <<the pieces pending afterwards, bytes inserted>>
InsertPending(P, ref, p) ==
  LET new  == Span(p, ref)
      kept == Subtract(p, ref, Positions(P, ref))
  IN  IF Policy = "FirstWins"
      THEN <<P \cup kept, Bytes(kept, ref)>>
      ELSE <<(UNION {Subtract(q, ref, new) : q \in P}) \cup {p}, p.len>>

(* enforce_budget and advance: loops that remove one piece at a time       *)

\* Drops the front piece until the account and the piece count fit.
EnforceBudget(s, ref) ==
  LET Fits(t) == /\ t.pending_bytes + t.ready <= MaxStreamBuffer
                 /\ Cardinality(t.pending) <= MaxSegments
      trim[n \in 0 .. Cardinality(s.pending)] ==
        IF n = 0 THEN s
        ELSE LET t == trim[n - 1]
                 p == FrontPiece(t.pending, ref)
             IN  IF t.pending = {} \/ Fits(t) THEN t
                 ELSE [t EXCEPT !.pending = @ \ {p},
                                !.pending_bytes = SatSub(@, p.len),
                                !.evicted = @ \cup {p}]
  IN  trim[Cardinality(s.pending)]

\* Moves the piece that continues the stream, if there is one, to `ready`.
MoveFront(s) ==
  LET hit == {p \in s.pending : p.seq = s.next_seq}
      p   == CHOOSE p \in hit : TRUE
  IN  IF hit = {} THEN s
      ELSE [s EXCEPT !.pending = @ \ {p}, !.pending_bytes = SatSub(@, p.len),
                     !.next_seq = (@ + p.len) % SeqSpace,
                     !.ready = @ + p.len, !.delivered = Append(@, p)]

\* Regression: the account keeps the bytes that left the buffer.
AdvanceKeepingAccount(s) ==
  LET adv[i \in 0 .. Cardinality(s.pending)] == IF i = 0 THEN s ELSE MoveFront(adv[i - 1])
  IN  [adv[Cardinality(s.pending)] EXCEPT !.pending_bytes = s.pending_bytes]

\* Moves every piece that continues the stream to `ready`.
Advance(s) ==
  LET adv[i \in 0 .. Cardinality(s.pending)] == IF i = 0 THEN s ELSE MoveFront(adv[i - 1])
  IN  adv[Cardinality(s.pending)]

-----------------------------------------------------------------------------
(* feed: `id` names the segment in the histories                            *)

\* Regression: the byte after the SYN is not reduced modulo the sequence space.
FeedEmptyWithoutWrap(s, seg) ==
  [s EXCEPT !.verdict = "InOrder",
            !.next_seq = IF @ = NoSeq /\ "SYN" \in seg.flags THEN seg.seq + 1 ELSE @]

\* Regression: a pure ACK starts the stream too.
FeedEmptyStartsAlways(s, seg) ==
  [s EXCEPT !.verdict = "InOrder",
            !.next_seq = IF @ # NoSeq THEN @
                         ELSE IF "SYN" \in seg.flags THEN (seg.seq + 1) % SeqSpace ELSE seg.seq]

\* A segment without payload: only a SYN of a stream not started yet moves it.
FeedEmpty(s, seg) ==
  [s EXCEPT !.verdict = "InOrder",
            !.next_seq = IF @ = NoSeq /\ "SYN" \in seg.flags THEN (seg.seq + 1) % SeqSpace ELSE @]

\* Where the stream stands once it is given a segment with payload.
Expected(s, seg) == IF s.next_seq = NoSeq THEN seg.seq ELSE s.next_seq

\* The bytes of the segment that lie before the expected one.
Ahead(s, seg) == LET d == Distance(seg.seq, Expected(s, seg)) IN IF d > 0 THEN d ELSE 0

\* The payload reaches the buffer, without its head of old bytes.
FeedData(s, seg, id) ==
  LET n     == Expected(s, seg)
      ahead == Ahead(s, seg)
      p     == [seq |-> (seg.seq + ahead) % SeqSpace, len |-> seg.len - ahead,
                feed |-> id, off |-> ahead]
      ins   == InsertPending(s.pending, n, p)
      t     == [s EXCEPT !.next_seq = n, !.pending = ins[1],
                         !.pending_bytes = SatSub(@ + ins[2], p.len - ins[2])]
      over  == \/ t.pending_bytes + t.ready > MaxStreamBuffer
               \/ Cardinality(t.pending) > MaxSegments
      kept  == IF over THEN [EnforceBudget(t, n) EXCEPT !.overflow = TRUE] ELSE t
  IN  IF ins[2] = 0            \* every byte is buffered already: no budget, no advance
      THEN [t EXCEPT !.verdict = "Retransmission"]
      ELSE [Advance(kept) EXCEPT
              !.verdict = IF ins[2] = p.len /\ SeqBefore(n, p.seq) THEN "Buffered"
                          ELSE IF ins[2] < p.len \/ ahead > 0 THEN "PartialOverlap"
                          ELSE "InOrder"]

FeedSegment(s, seg, id) ==
  LET t == [s EXCEPT !.rst_seen = @ \/ "RST" \in seg.flags, !.fin_seen = @ \/ "FIN" \in seg.flags]
  IN  IF seg.len = 0 THEN FeedEmpty(t, seg)
      ELSE IF Ahead(t, seg) >= seg.len    \* the whole payload was handed out before
           THEN [t EXCEPT !.verdict = "Retransmission"]
           ELSE FeedData(t, seg, id)

\* take_contiguous: advances, then hands out what is ready.
TakeReady(s) == [Advance(s) EXCEPT !.ready = 0]

-----------------------------------------------------------------------------
(* gaps and note_state *)

\* Regression: every hole is measured from the expected byte.
GapsFromNext(s) ==
  IF s.next_seq = NoSeq THEN {}
  ELSE {<<s.next_seq, Distance(s.next_seq, p.seq)>> : p \in s.pending}

\* gaps: the holes in front of the buffered pieces, as <<start, length>>.
Gaps(s) ==
  LET n    == s.next_seq
      ends == {n} \cup {(p.seq + p.len) % SeqSpace : p \in s.pending}
      Before(p) == {e \in ends : Distance(n, e) <= Distance(n, p.seq)}
      Last(p)   == CHOOSE e \in Before(p) : \A f \in Before(p) : Distance(n, f) <= Distance(n, e)
  IN  IF n = NoSeq THEN {}
      ELSE {<<Last(p), Distance(Last(p), p.seq)>> :
              p \in {q \in s.pending : SeqBefore(Last(q), q.seq)}}

StreamState(s) ==
  IF s.overflow THEN "BufferOverflow"
  ELSE IF Gaps(s) # {} THEN "Incomplete"
  ELSE IF s.rst_seen THEN "Closed"
  ELSE IF s.fin_seen THEN "HalfClosed"
  ELSE IF s.next_seq # NoSeq THEN "Active" ELSE "New"
=============================================================================

----------------------------- MODULE Reassembly -----------------------------
(***************************************************************************)
(* One stream buffer of packetsage-core (StreamBuf) on its own, against    *)
(* every sequence of segments: what reassembly delivers, buffers and       *)
(* reports.                                                                *)
(***************************************************************************)
EXTENDS StreamBuf

CONSTANTS
  Inputs,           \* the segments a capture may hold
  MaxFeeds          \* bound of the model: segments fed in one behaviour

ASSUME InputsAssumption ==
  /\ MaxFeeds \in Nat
  /\ Inputs \subseteq [seq : SeqNum, len : 0 .. Half - 1, flags : SUBSET Flags]

VARIABLES
  stream,         \* the stream buffer
  feeds           \* history: the segments fed so far

vars == <<stream, feeds>>

Pieces == [seq : SeqNum, len : 1 .. Half - 1, feed : 1 .. MaxFeeds, off : 0 .. Half - 1]

Feed(seg) ==
  /\ Len(feeds) < MaxFeeds
  /\ feeds' = Append(feeds, seg)
  /\ stream' = FeedSegment(stream, seg, Len(feeds) + 1)

TakeContiguous ==
  /\ feeds # <<>> /\ stream.ready > 0
  /\ stream' = TakeReady(stream)
  /\ UNCHANGED feeds

Init == stream = EmptyStream /\ feeds = <<>>

Next == TakeContiguous \/ \E seg \in Inputs : Feed(seg)

Spec == Init /\ [][Next]_vars

-----------------------------------------------------------------------------
(* Properties *)

next_seq  == stream.next_seq
pending   == stream.pending
delivered == stream.delivered

\* Type invariant: pieces are non-empty, and fit the sequence space.
TypeOK ==
  /\ next_seq \in SeqNum \cup {NoSeq}
  /\ pending \subseteq Pieces /\ stream.evicted \subseteq Pieces
  /\ stream.ready \in Nat /\ stream.pending_bytes \in Nat
  /\ {stream.overflow, stream.fin_seen, stream.rst_seen} \subseteq BOOLEAN
  /\ stream.verdict \in {"none", "InOrder", "Buffered", "PartialOverlap", "Retransmission"}
  /\ feeds \in Seq(Inputs) /\ delivered \in Seq(Pieces)

\* The segments that start a stream, as the places they take in the window that
\* opens at `base`, end before half of the sequence space.
FitsFrom(base) ==
  \A seg \in Inputs :
    seg.len > 0 \/ "SYN" \in seg.flags =>
      ((seg.seq - base) % SeqSpace) + (IF seg.len = 0 THEN 1 ELSE seg.len) < Half

\* Sequence numbers are compared by their signed distance, which orders them only
\* as long as the capture of one stream fits half of the sequence space (2 GiB).
Windowed == \E base \in SeqNum : FitsFrom(base)

SeqsOf(p) == {(p.seq + i) % SeqSpace : i \in 0 .. p.len - 1}

Carried(f) == {(feeds[f].seq + i) % SeqSpace : i \in 0 .. feeds[f].len - 1}

Delivered == {delivered[i] : i \in DOMAIN delivered}

Starters == {f \in DOMAIN feeds : feeds[f].len > 0 \/ "SYN" \in feeds[f].flags}

\* Where the stream begins: after the SYN, or at the first payload captured.
Start ==
  LET f == CHOOSE f \in Starters : \A g \in Starters : f <= g
  IN  IF feeds[f].len = 0 THEN (feeds[f].seq + 1) % SeqSpace ELSE feeds[f].seq

\* The bytes handed to consumers are one gap-free, duplicate-free run from the
\* start of the stream to next_seq, and every byte held or handed out is the
\* byte some segment carried at that sequence number: the interval arithmetic
\* of insert_pending and the trimming in feed never shift or repeat a byte.
DeliveredIsSent ==
  /\ \A p \in pending \cup Delivered :
       /\ (feeds[p.feed].seq + p.off) % SeqSpace = p.seq
       /\ p.off + p.len <= feeds[p.feed].len
  /\ next_seq # NoSeq =>
       /\ delivered = <<>> => next_seq = Start
       /\ delivered # <<>> =>
            /\ delivered[1].seq = Start
            /\ \A i \in DOMAIN delivered :
                 (delivered[i].seq + delivered[i].len) % SeqSpace =
                   IF i = Len(delivered) THEN next_seq ELSE delivered[i + 1].seq

\* OverlapPolicy::FirstWins: a later copy of a byte is only ever used when the
\* budget dropped an earlier copy from the buffer.
FirstCopyWins ==
  \A p \in pending \cup Delivered : \A s \in SeqsOf(p) : \A f \in 1 .. p.feed - 1 :
    s \in Carried(f) => \E e \in stream.evicted : e.feed < p.feed /\ s \in SeqsOf(e)

\* As long as the stream is not marked BufferOverflow, every byte captured at or
\* after its start is delivered or buffered.
NoSilentLoss ==
  ~ stream.overflow =>
    \A f \in DOMAIN feeds : \A s \in Carried(f) :
      Distance(Start, s) >= 0 => \E p \in pending \cup Delivered : s \in SeqsOf(p)

\* Between calls the buffer holds only disjoint pieces that start strictly after
\* the expected byte, and missing_ranges reports exactly the bytes before the last
\* buffered one that are not buffered: advance strands no piece, and a state other
\* than Incomplete (or BufferOverflow) means nothing is waiting behind a hole.
GapsExact ==
  LET held == Positions(pending, next_seq)
      far  == {d \in 0 .. Half - 1 : \E h \in held : d <= h}
  IN  next_seq # NoSeq =>
        /\ \A p \in pending : SeqBefore(next_seq, p.seq)
        /\ \A p, q \in pending : p # q => SeqsOf(p) \cap SeqsOf(q) = {}
        /\ UNION {Distance(next_seq, g[1]) .. Distance(next_seq, g[1]) + g[2] - 1 : g \in Gaps(stream)}
             = far \ held
        /\ (Gaps(stream) = {}) <=> (pending = {})

\* BufferOverflow is never raised spuriously: when it appears, the pieces held
\* while the segment was inserted really exceeded one of the two limits.
OverflowOnlyOverBudget ==
  [][ stream'.overflow /\ ~ stream.overflow =>
        LET moved == {delivered'[i] : i \in Len(delivered) + 1 .. Len(delivered')}
            held  == pending' \cup moved \cup (stream'.evicted \ stream.evicted)
            ref   == Expected(stream, feeds'[Len(feeds')])
        IN  \/ Bytes(held, ref) + stream.ready > MaxStreamBuffer
            \/ Cardinality(held) > MaxSegments ]_vars

\* config.rs:81 "Maximum buffered bytes per stream": the bytes waiting in
\* `pending` never exceed max_stream_buffer.  The code's account misses them.
HeldWithinBudget == Bytes(pending, next_seq) <= MaxStreamBuffer
=============================================================================

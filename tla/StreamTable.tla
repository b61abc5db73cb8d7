----------------------------- MODULE StreamTable -----------------------------
(***************************************************************************)
(* The Reassembler of packetsage-core/src/reassembly.rs: a stream buffer   *)
(* per session and direction, with a cap on sessions and an idle timeout.  *)
(* A table is [streams, keys, last, dropped]: the buffers by               *)
(* <<key, direction>>, the session keys counted by the cap, the time of    *)
(* each stream's last segment, and the segments refused at the cap.        *)
(***************************************************************************)
EXTENDS StreamBuf, SequencesExt, Optional

CONSTANTS
  MaxSessions,     \* limits.max_sessions
  StreamTimeout    \* limits.stream_timeout

ASSUME TableAssumption == MaxSessions \in Nat /\ StreamTimeout \in Nat

Directions == {"c2s", "s2c"}

EmptyTable == [streams |-> <<>>, keys |-> {}, last |-> <<>>, dropped |-> 0]

\* feed: the table afterwards and the verdict.
FeedTable(t, key, dir, seg, ts, id) ==
  LET k      == <<key, dir>>
      stream == IF k \in DOMAIN t.streams THEN t.streams[k] ELSE EmptyStream
      last   == IF k \in DOMAIN t.streams /\ t.last[k] > ts THEN t.last[k] ELSE ts
      fed    == FeedSegment(stream, seg, id)
  IN  IF k \notin DOMAIN t.streams /\ key \notin t.keys /\ Cardinality(t.keys) >= MaxSessions
      THEN [table |-> [t EXCEPT !.dropped = @ + 1], verdict |-> "Dropped"]
      ELSE [table   |-> [t EXCEPT !.streams = With(@, k, fed), !.last = With(@, k, last),
                                  !.keys = @ \cup {key}],
            verdict |-> fed.verdict]

TakeTable(t, key, dir) ==
  IF <<key, dir>> \in DOMAIN t.streams THEN [t EXCEPT !.streams[<<key, dir>>] = TakeReady(@)]
  ELSE t

\* merge_state: a session is as bad as its worse direction.
Severity == <<"BufferOverflow", "Incomplete", "Closed", "HalfClosed", "Active", "New">>

MergedState(states) ==
  IF states = {} THEN "New"
  ELSE Severity[CHOOSE i \in DOMAIN Severity :
                  Severity[i] \in states /\ \A j \in 1 .. i - 1 : Severity[j] \notin states]

TableState(t, key) ==
  MergedState({StreamState(t.streams[k]) : k \in {k \in DOMAIN t.streams : k[1] = key}})

\* prune_expired: drops the idle streams.  A key leaves the cap with the first
\* of its two streams.
Expired(t, now) == {k \in DOMAIN t.streams : now - t.last[k] > StreamTimeout}

PruneExpired(t, now) ==
  LET gone == Expired(t, now)
      left == DOMAIN t.streams \ gone
  IN  [table  |-> [t EXCEPT !.streams = [k \in left |-> t.streams[k]],
                            !.last = [k \in left |-> t.last[k]],
                            !.keys = @ \ {k[1] : k \in gone}],
       pruned |-> SetToSeq({[key |-> k[1], state |-> StreamState(t.streams[k])] : k \in gone})]
=============================================================================

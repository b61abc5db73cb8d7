----------------------------- MODULE RuleWindow -----------------------------
(***************************************************************************)
(* The rule engine of packetsage-rules/src/evaluator.rs: one sliding       *)
(* window per rule and group, with incremental aggregates, a budget, a     *)
(* cooldown per group and the final flush.                                 *)
(*                                                                         *)
(* A window is touched by every event its rule matches.  Events may arrive *)
(* out of time order (a capture of several interfaces), so a window ends   *)
(* at the latest time it has seen, not at the last event.                  *)
(* Values are fractions <<n, d>>.  Alert ids, hashes and names are left    *)
(* out.                                                                    *)
(***************************************************************************)
EXTENDS RuleMatch, FiniteSetsExt

CONSTANTS
  MaxGroups,         \* budget.max_groups
  MaxGroupEvents,    \* budget.max_events_per_group
  MinTime            \* i128::MIN: earlier than every event

ASSUME WindowAssumption ==
  MaxGroups \in Nat \ {0} /\ MaxGroupEvents \in Nat \ {0} /\ MinTime \in Int

VARIABLES
  rules,       \* the loaded rules, in order
  windows,     \* <<rule index, group>> -> window
  evictions,   \* windows dropped by the budget
  raised,      \* the alerts of the last call
  matched      \* history: the samples each window received since it exists

windowVars == <<rules, windows, evictions, raised, matched>>

-----------------------------------------------------------------------------
(* One window                                                               *)

\* The aggregates: how often each value occurs, the bytes, the ratio's hits.
NoSums == [counts |-> <<>>, bytes |-> 0, hits |-> 0]

NewWindow(e) ==
  [events |-> <<>>, sums |-> NoSums, seenMax |-> MinTime, lastTouch |-> MinTime,
   cooldownUntil |-> MinTime, degraded |-> FALSE,
   state |-> IF e.kind = "SessionSummary" THEN e.fields["state"] ELSE None]

CountIn(counts, v) == IF v \in DOMAIN counts THEN counts[v] ELSE 0

Accumulate(sums, s) ==
  [counts |-> With(sums.counts, s.value, CountIn(sums.counts, s.value) + 1),
   bytes  |-> sums.bytes + s.number,
   hits   |-> IF s.hit THEN sums.hits + 1 ELSE sums.hits]

\* A value that no event has any more leaves the counts.
Uncounted(counts, v) ==
  CASE CountIn(counts, v) = 0 -> counts
    [] CountIn(counts, v) = 1 -> Without(counts, v)
    [] OTHER                  -> With(counts, v, counts[v] - 1)

\* Regression: the sum keeps the bytes of events that left the window.
ReleaseKeepingBytes(sums, s) ==
  [counts |-> Uncounted(sums.counts, s.value),
   bytes  |-> sums.bytes,
   hits   |-> IF s.hit /\ sums.hits > 0 THEN sums.hits - 1 ELSE sums.hits]

Release(sums, s) ==
  [counts |-> Uncounted(sums.counts, s.value),
   bytes  |-> sums.bytes - s.number,
   hits   |-> IF s.hit /\ sums.hits > 0 THEN sums.hits - 1 ELSE sums.hits]

\* rebuild_aggregates.
SumsOf(events) ==
  LET upTo[i \in 0 .. Len(events)] ==
        IF i = 0 THEN NoSums ELSE Accumulate(upTo[i - 1], events[i])
  IN  upTo[Len(events)]

\* The aggregates after the first n events are released.
Released(sums, events, n) ==
  LET after[i \in 0 .. n] == IF i = 0 THEN sums ELSE Release(after[i - 1], events[i])
  IN  after[n]

\* Takes the sample in; a window past its budget keeps its newer half and no evidence.
Push(w, s) ==
  LET all  == Append(w.events, s)
      n    == Len(all)
      half == SubSeq(all, n - n \div 2 + 1, n)
      v    == [w EXCEPT !.seenMax = Max({@, s.ts}), !.lastTouch = Max({@, s.ts})]
  IN  IF n <= MaxGroupEvents
      THEN [v EXCEPT !.events = all, !.sums = Accumulate(@, s)]
      ELSE [v EXCEPT !.events = half, !.sums = SumsOf(half), !.degraded = TRUE]

\* Drops events from the front up to the first one inside the window.
Prune(w, length) ==
  LET n    == Len(w.events)
      left == w.seenMax - length
      gone == Min({i \in 0 .. n : i = n \/ w.events[i + 1].ts >= left})
  IN  IF w.seenMax = MinTime THEN w
      ELSE [w EXCEPT !.events = SubSeq(@, gone + 1, n), !.sums = Released(@, w.events, gone)]

MetricValue(r, w) ==
  CASE r.metric = "count"          -> <<Len(w.events), 1>>
    [] r.metric = "sum_bytes"      -> <<w.sums.bytes, 1>>
    [] r.metric = "distinct_count" -> <<Cardinality(DOMAIN w.sums.counts), 1>>
    [] r.metric = "ratio"          -> IF w.events = <<>> THEN <<0, 1>>
                                      ELSE <<w.sums.hits, Len(w.events)>>

\* At most five evenly spaced packets of the window.
SamplePackets(w) ==
  LET n   == Len(w.events)
      pos == IF n <= 5 THEN 1 .. n
             ELSE {1, n \div 4 + 1, n \div 2 + 1, (n * 3) \div 4 + 1, n}
  IN  {w.events[i].idx : i \in pos}

\* Regression: a degraded window still names sample packets.
AlertWithSamples(r, key, w, now, evicted) ==
  LET first == w.events[1]
      last  == w.events[Len(w.events)]
  IN  [rule |-> r.id, key |-> key, now |-> now, value |-> MetricValue(r, w),
       first |-> Min({first.idx, last.idx}), last |-> Max({first.idx, last.idx}),
       samples |-> SamplePackets(w), degraded |-> w.degraded, state |-> w.state,
       evicted |-> evicted]

\* `evicted` is history: the evictions so far.
Alert(r, key, w, now, evicted) ==
  LET first == w.events[1]
      last  == w.events[Len(w.events)]
  IN  [rule |-> r.id, key |-> key, now |-> now, value |-> MetricValue(r, w),
       first |-> Min({first.idx, last.idx}), last |-> Max({first.idx, last.idx}),
       samples |-> IF w.degraded THEN {} ELSE SamplePackets(w),
       degraded |-> w.degraded, state |-> w.state, evicted |-> evicted]

\* Regression: the cooldown is not looked at.
FiresAlways(r, w, now) == w.events # <<>> /\ Applies(r.operator, MetricValue(r, w), r.value)

\* check: the window meets the threshold and is not cooling down.
Fires(r, w, now) ==
  /\ w.events # <<>>
  /\ Applies(r.operator, MetricValue(r, w), r.value)
  /\ now >= w.cooldownUntil

-----------------------------------------------------------------------------
(* The engine, a record [win, evicted, alerts, seen]                  *)

Engine == [win |-> windows, evicted |-> evictions, alerts |-> <<>>, seen |-> matched]

\* Regression: room is made one window too late.
MakeRoomLate(g) ==
  IF Cardinality(DOMAIN g.win) <= MaxGroups THEN {g}
  ELSE {[g EXCEPT !.win = Without(@, k), !.evicted = @ + 1, !.seen = Without(@, k)] :
          k \in {k \in DOMAIN g.win :
                   \A j \in DOMAIN g.win : g.win[k].lastTouch <= g.win[j].lastTouch}}

\* make_room: any least recently touched window goes when the budget is reached.
MakeRoom(g) ==
  IF Cardinality(DOMAIN g.win) < MaxGroups THEN {g}
  ELSE {[g EXCEPT !.win = Without(@, k), !.evicted = @ + 1, !.seen = Without(@, k)] :
          k \in {k \in DOMAIN g.win :
                   \A j \in DOMAIN g.win : g.win[k].lastTouch <= g.win[j].lastTouch}}

CooledDown(w, r, now) == [w EXCEPT !.cooldownUntil = now + WindowSeconds[r.cooldown]]

\* Raises the alert of a key and starts its cooldown.
CheckKey(g, key, now) ==
  LET r == rules[key[1]]
      w == g.win[key]
  IN  IF ~ Fires(r, w, now) THEN g
      ELSE [g EXCEPT !.alerts = Append(@, Alert(r, key, w, now, g.evicted)),
                     !.win[key] = CooledDown(@, r, now)]

\* What rule i makes of event e: the possible engines afterwards.
EvaluateRule(g, i, e, now) ==
  LET r      == rules[i]
      value  == SampleOf(r, e)
      key    == <<i, GroupOf(r, e)>>
      pos    == Position(e)
      sample == [ts |-> pos.ts, idx |-> pos.idx, value |-> value,
                 number |-> Number(r, value), hit |-> RatioHit(r, value)]
      Opened == IF key \in DOMAIN g.win THEN {g}
                ELSE {[h EXCEPT !.win = With(@, key, NewWindow(e)), !.seen = With(@, key, <<>>)] :
                        h \in MakeRoom(g)}
  IN  IF ~ Matches(r, e) \/ value = None THEN {g}
      ELSE {CheckKey([h EXCEPT !.win[key]  = Prune(Push(@, sample), WindowSeconds[r.window]),
                               !.seen[key] = Append(@, sample)], key, now) : h \in Opened}

\* evaluate: the rules in order.
Evaluated(e, now) ==
  LET after[i \in 0 .. Len(rules)] ==
        IF i = 0 THEN {Engine}
        ELSE UNION {EvaluateRule(g, i, e, now) : g \in after[i - 1]}
  IN  after[Len(rules)]

\* flush_for_task: every window once more, session windows included.  The keys
\* do not touch each other's windows; the order of their alerts is left out.
Flushed(now) ==
  LET R(key) == rules[key[1]]
      pruned == [key \in DOMAIN windows |-> Prune(windows[key], WindowSeconds[R(key).window])]
      firing == {key \in DOMAIN windows : Fires(R(key), pruned[key], now)}
  IN  [win     |-> [key \in DOMAIN windows |->
                      IF key \in firing THEN CooledDown(pruned[key], R(key), now) ELSE pruned[key]],
       evicted |-> evictions,
       alerts  |-> SetToSeq({Alert(R(key), key, pruned[key], now, evictions) : key \in firing}),
       seen    |-> matched]

Becomes(g) ==
  /\ windows' = g.win /\ evictions' = g.evicted /\ raised' = g.alerts
  /\ matched' = g.seen
  /\ UNCHANGED rules

EvaluateEvent(e, now) == \E g \in Evaluated(e, now) : Becomes(g)

Flush(now) == Becomes(Flushed(now))

WindowInit(loaded) ==
  /\ rules = loaded /\ windows = <<>> /\ evictions = 0 /\ raised = <<>>
  /\ matched = <<>>

-----------------------------------------------------------------------------
(* Properties *)

InWindow(k, w, sample) ==
  sample.ts >= w.seenMax - WindowSeconds[rules[k[1]].window]

\* The incremental aggregates of every window (distinct values, bytes, ratio
\* hits) are those of the events it holds; and unless its budget degraded it,
\* it holds the last events it matched, among them every one inside its time
\* span, however late it came.
WindowsExact ==
  \A k \in DOMAIN windows :
    LET w    == windows[k]
        all  == matched[k]
        gone == Len(all) - Len(w.events)
    IN  /\ w.sums = SumsOf(w.events)
        /\ Len(w.events) <= MaxGroupEvents
        /\ ~ w.degraded => /\ w.events = SubSeq(all, gone + 1, Len(all))
                           /\ \A i \in 1 .. gone : ~ InWindow(k, w, all[i])
=============================================================================

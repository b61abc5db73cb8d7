------------------------------ MODULE RuleMatch ------------------------------
(***************************************************************************)
(* Which events a rule looks at, the sample it takes from one and the      *)
(* group it counts it in: the matches_*, sample_of and group_of functions  *)
(* of packetsage-rules/src/evaluator.rs.                                   *)
(*                                                                         *)
(* An event is [kind, idx, ts, fields]: what happened, the packet it is    *)
(* about, its time, and the fields the event carries, by their rule names  *)
(* ("tcp.flags" holds the set of TCP flags).  A field the event lacks is   *)
(* not in the domain.                                                      *)
(***************************************************************************)
EXTENDS RuleSchema

Field(e, name) == IF name \in DOMAIN e.fields THEN e.fields[name] ELSE None

\* The position of an event in time: a decode error has none and is put at 0.
Position(e) ==
  CASE e.kind = "Packet"         -> [idx |-> e.idx, ts |-> e.ts]
    [] e.kind = "DecodeError"    -> [idx |-> e.idx, ts |-> 0]
    [] e.kind = "SessionSummary" -> [idx |-> 0, ts |-> e.ts]

\* matches_match_spec and matches_packet.
MatchesPacket(m, e) ==
  /\ m.protocol # None => Field(e, "protocol") = m.protocol
  /\ m.flags # None =>
       LET present == IF "tcp.flags" \in DOMAIN e.fields THEN e.fields["tcp.flags"] ELSE {}
       IN  /\ m.flags.contains \subseteq present \cap FlagWhitelist
           /\ m.flags.excludes \subseteq FlagWhitelist \ present
  /\ m.src_port # None => PortMatches(m.src_port, Field(e, "src_port"))
  /\ m.dst_port # None => PortMatches(m.dst_port, Field(e, "dst_port"))
  /\ m.any_port # None => \/ PortMatches(m.any_port, Field(e, "src_port"))
                          \/ PortMatches(m.any_port, Field(e, "dst_port"))
  /\ m.dns # None =>
       /\ Field(e, "detail") = "dns"
       /\ \A f \in DOMAIN m.dns : f \in DOMAIN e.fields /\ e.fields[f] > m.dns[f]
  /\ m.decode_layer = None /\ m.decode_code = None

\* Only the decode conditions of the filter are looked at.
MatchesDecode(m, e) ==
  /\ m.decode_layer # None \/ m.decode_code # None
  /\ m.decode_layer \in {None, "any", Field(e, "decode_layer")}
  /\ m.decode_code \in {None, Field(e, "decode_code")}

\* Only the protocol of the filter is looked at.
MatchesSession(m, e) == m.protocol \in {None, Field(e, "protocol")}

Matches(r, e) ==
  \/ e.kind = "Packet" /\ r.scope = "packet" /\ MatchesPacket(r.match, e)
  \/ e.kind = "DecodeError" /\ r.scope = "packet" /\ MatchesDecode(r.match, e)
  \/ e.kind = "SessionSummary" /\ r.scope = "session" /\ MatchesSession(r.match, e)

\* The fields a distinct_count or ratio rule can read from each kind of event.
Readable(e) ==
  CASE e.kind = "Packet"         -> FieldWhitelist
    [] e.kind = "DecodeError"    -> {"decode_code", "decode_layer"}
    [] e.kind = "SessionSummary" -> {"src_ip", "dst_ip"}

\* The sample a matched event adds to its window, or None: the event is skipped.
SampleOf(r, e) ==
  CASE r.metric = "count"     -> 1
    [] r.metric = "sum_bytes" -> IF e.kind = "Packet" THEN e.fields["bytes"] ELSE 0
    [] r.metric \in {"distinct_count", "ratio"} ->
         IF r.field \in Readable(e) THEN Field(e, r.field) ELSE None

\* A text sample counts as no number.
Number(r, sample) ==
  IF r.metric \in {"count", "sum_bytes"} \/ r.field \in NumericFields THEN sample ELSE 0

\* The sample meets the sub-condition of a ratio.
RatioHit(r, sample) ==
  /\ r.field_gt # None
  /\ r.metric \in {"count", "sum_bytes"} \/ r.field \in NumericFields
  /\ sample > r.field_gt

\* The fields a rule can group each kind of event by; any other one is "".
Groupable(e) ==
  CASE e.kind = "Packet"         -> GroupFields \ {"decode_code"}
    [] e.kind = "DecodeError"    -> {"decode_code"}
    [] e.kind = "SessionSummary" -> GroupFields \ {"decode_code"}

GroupOf(r, e) ==
  [i \in DOMAIN r.group_by |->
     LET g == r.group_by[i]
     IN  IF g \in Groupable(e) /\ g \in DOMAIN e.fields THEN e.fields[g]
         ELSE IF e.kind = "Packet" /\ g = "protocol" THEN "unknown" ELSE ""]
=============================================================================

----------------------------- MODULE RuleSchema -----------------------------
(***************************************************************************)
(* Detection rules of packetsage-rules: the shape of a rule file, the      *)
(* static checks S1 to S10 of schema.rs and the two loaders of loader.rs.  *)
(*                                                                         *)
(* A rule file is a record [stem, readable, yaml, rule]: the file name     *)
(* without its extension, whether it can be read, whether serde accepts it *)
(* (unknown top-level fields are refused there), and the rule it holds.    *)
(* Texts of messages, content hashes and paths are left out.               *)
(***************************************************************************)
EXTENDS Integers, Sequences, FiniteSets, SequencesExt, Optional

CONSTANT
  ValidRuleIds     \* the ids that match ^[A-Z][A-Z0-9]*(-[A-Z0-9]+)*-[0-9]{3}$

Scopes    == {"packet", "session"}
Metrics   == {"count", "distinct_count", "sum_bytes", "ratio"}
Operators == {"gt", "gte", "lt", "lte", "eq", "neq"}
GroupFields ==
  {"src_ip", "dst_ip", "src_port", "dst_port", "protocol", "session", "decode_code"}

\* The shape serde gives a match filter and a rule file.
IsMatch(m) ==
  /\ DOMAIN m = {"protocol", "flags", "src_port", "dst_port", "any_port", "dns",
                 "decode_layer", "decode_code"}
  /\ m.flags # None => DOMAIN m.flags = {"contains", "excludes"}
  /\ \A p \in {m.src_port, m.dst_port, m.any_port} \ {None} :
       DOMAIN p = {"gte", "lte", "eq", "in"}
  /\ m.dns # None => DOMAIN m.dns \subseteq {"dns.qname_len", "dns.txt_len", "dns.entropy"}

IsRule(r) ==
  /\ DOMAIN r = {"id", "scope", "match", "metric", "field", "field_gt", "group_by", "window",
                 "cooldown", "operator", "value", "described", "tags"}
  /\ r.scope \in Scopes /\ r.metric \in Metrics /\ r.operator \in Operators
  /\ IsMatch(r.match) /\ r.group_by \in Seq(GroupFields)
  /\ r.value[1] \in Int /\ r.value[2] \in Nat \ {0} /\ r.tags \in Nat

\* Seconds of each name of the window and cooldown whitelist.
WindowSeconds ==
  [w \in {"1s", "5s", "10s", "30s", "1m", "5m"} |->
     CASE w = "1s" -> 1  [] w = "5s" -> 5  [] w = "10s" -> 10
       [] w = "30s" -> 30 [] w = "1m" -> 60 [] w = "5m" -> 300]

NumericFields == {"bytes", "dst_port", "src_port", "dns.qname_len", "dns.txt_len", "dns.entropy"}

FieldWhitelist == NumericFields \cup {"dst_ip", "src_ip", "tls.sni", "http.host"}

FlagWhitelist == {"FIN", "SYN", "RST", "PSH", "ACK", "URG", "ECE", "CWR"}

\* A port condition's bounds all hold; an absent port never matches.
PortMatches(c, port) ==
  /\ port # None
  /\ c.gte # None => port >= c.gte
  /\ c.lte # None => port <= c.lte
  /\ c.eq # None => port = c.eq
  /\ c.in # None => port \in c.in

\* Operator::apply, on values and thresholds that are fractions <<n, d>>.
Applies(operator, v, t) ==
  LET diff == v[1] * t[2] - t[1] * v[2]
  IN  CASE operator = "gt"  -> diff > 0
        [] operator = "gte" -> diff >= 0
        [] operator = "lt"  -> diff < 0
        [] operator = "lte" -> diff <= 0
        [] operator = "eq"  -> diff = 0
        [] operator = "neq" -> diff # 0

-----------------------------------------------------------------------------
(* validate: the checks that reject a rule, and those that only warn        *)

Violations(r, stem, seen) ==
  LET m      == r.match
      broken == [
        S1  |-> r.id \notin ValidRuleIds \/ r.id \in seen \/ stem # r.id,
        S2  |-> \/ r.metric \in {"distinct_count", "sum_bytes", "ratio"} /\ r.field = None
                \/ r.metric = "ratio" /\ r.field_gt = None,
        S3  |-> r.field # None /\ r.field \notin FieldWhitelist,
        S4  |-> r.window \notin DOMAIN WindowSeconds \/ r.cooldown \notin DOMAIN WindowSeconds,
        S5  |-> /\ m.flags # None
                /\ \/ r.scope # "packet" \/ m.protocol # "tcp"
                   \/ ~ (m.flags.contains \cup m.flags.excludes \subseteq FlagWhitelist),
        S6  |-> /\ m.dns # None
                /\ m.protocol # "udp" \/ m.dst_port = None \/ ~ PortMatches(m.dst_port, 53),
        S7  |-> /\ r.metric = "ratio"
                /\ \/ ~ (0 < r.value[1] /\ r.value[1] <= r.value[2])
                   \/ r.operator \notin {"gt", "gte"},
        S9  |-> r.group_by = <<>>,
        S10 |-> m.any_port # None /\ m.protocol \notin {"tcp", "udp"}]
  IN  {s \in DOMAIN broken : broken[s]}

Warnings(r) ==
  LET m    == r.match
      soft == [S8  |-> ~ r.described \/ r.tags > 8,
               S10 |-> m.any_port # None /\ (m.src_port # None \/ m.dst_port # None)]
  IN  {s \in DOMAIN soft : soft[s]}

Timed(r) == {r.window, r.cooldown} \subseteq DOMAIN WindowSeconds

\* CompiledRule::from_text: the YAML parses and both durations are known.
Compiles(f) == f.readable /\ f.yaml /\ Timed(f.rule)

Accepts(f, seen) == Compiles(f) /\ Violations(f.rule, f.stem, seen) = {}

-----------------------------------------------------------------------------
(* The loaders: `files` is the sorted listing of the directory              *)

Ids(rules) == {rules[i].id : i \in DOMAIN rules}

\* A rule replaces the loaded rule of the same id, in its place.
Install(rules, r) ==
  IF r.id \in Ids(rules)
  THEN [i \in DOMAIN rules |-> IF rules[i].id = r.id THEN r ELSE rules[i]]
  ELSE Append(rules, r)

\* ... one file: a bad one becomes a dead letter, any other is installed.
LoadFile(acc, f) ==
  IF ~ Accepts(f, acc.seen) THEN [acc EXCEPT !.dead = Append(@, f)]
  ELSE [acc EXCEPT !.rules = Install(@, f.rule),
                   !.seen = @ \cup {f.rule.id},
                   !.loaded = @ + 1,
                   !.warned = @ + Cardinality(Warnings(f.rule))]

\* load_dir_lenient: the files of the directory in order.
LoadLenient(files, into) ==
  LET after[i \in 0 .. Len(files)] ==
        IF i = 0 THEN [rules |-> into, seen |-> {}, loaded |-> 0, warned |-> 0, dead |-> <<>>]
        ELSE LoadFile(after[i - 1], files[i])
  IN  after[Len(files)]

\* load_dir: every rule of the directory, or None at the first bad file.
LoadStrict(files) ==
  LET Add(acc, f) == IF acc = None \/ ~ Accepts(f, Ids(acc)) THEN None
                     ELSE Append(acc, f.rule)
  IN  FoldLeft(Add, <<>>, files)
=============================================================================

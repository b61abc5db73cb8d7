----------------------------- MODULE MCAnalysis -----------------------------
(* Instances of Analysis for TLC: small captures and a handful of rules.    *)
EXTENDS Analysis, MCCommandLine

Net(proto, src, dst) == [proto |-> proto, src |-> src, dst |-> dst, version |-> 4, frag |-> FALSE]

Frame(net, sport, dport, flags, seq, len) ==
  [linktype |-> "ethernet", fault |-> None, net |-> net,
   tr |-> [proto |-> net.proto, sport |-> sport, dport |-> dport, flags |-> flags, seq |-> seq],
   len |-> len, content |-> None, cap |-> len + 1, orig |-> len + 1]

ToServer(flags, seq, len) == Frame(Net("tcp", 1, 2), 9, 80, flags, seq, len)
ToClient(flags, seq, len) == Frame(Net("tcp", 2, 1), 80, 9, flags, seq, len)

Dns == [Frame(Net("udp", 1, 2), 9, 53, {}, None, 3) EXCEPT
          !.content = [proto |-> "dns", fields |-> ("dns.qname_len" :> 3)]]
Cut == [Frame(Net("tcp", 1, 2), 9, 80, {}, 1, 2) EXCEPT
          !.fault = [kind |-> "Len", layer |-> "TcpHeader", short |-> TRUE], !.orig = 9]
Other == Frame(Net("tcp", 3, 2), 9, 80, {"ACK"}, 1, 1)

Epb(iface, ts, frame) == [kind |-> "EnhancedPacket", iface |-> iface, ts |-> ts, frame |-> frame]

MCBlocks ==
  [PcapNg |-> {[kind |-> "SectionHeader"], [kind |-> "InterfaceDescription"],
               [kind |-> "SimplePacket", frame |-> ToServer({"ACK"}, 1, 2)],
               Epb(0, 2, ToServer({"SYN"}, 0, 0)), Epb(0, 3, ToServer({"ACK"}, 1, 2)),
               Epb(0, 7, ToServer({"ACK"}, 3, 2)), Epb(0, 4, ToClient({"SYN"}, 8, 0)),
               Epb(1, 9, Dns)},
   Pcap   |-> {[kind |-> "LegacyHeader"]} \cup
              {[kind |-> "Legacy", ts |-> p[1], frame |-> p[2]] :
                 p \in {<<7, ToServer({"ACK"}, 3, 2)>>, <<1, ToServer({"ACK"}, 1, 2)>>,
                        <<9, ToClient({"FIN", "ACK"}, 8, 0)>>, <<5, Cut>>, <<6, Other>>, <<20, Dns>>}}]

MCMinTime == -1000

AnyMatch == [f \in {"protocol", "flags", "src_port", "dst_port", "any_port", "dns", "decode_layer",
                    "decode_code"} |-> None]

Rule(id, scope, match, metric, field, by, value) ==
  [id |-> id, scope |-> scope, match |-> match, metric |-> metric, field |-> field,
   field_gt |-> None, group_by |-> by, window |-> "5s", cooldown |-> "5s", operator |-> "gte",
   value |-> value, described |-> TRUE, tags |-> 1]

Tcp == [AnyMatch EXCEPT !.protocol = "tcp"]

Burst   == Rule("R1", "packet", Tcp, "count", None, <<"src_ip">>, <<2, 1>>)
Volume  == Rule("R2", "packet", Tcp, "sum_bytes", "bytes", <<"dst_ip">>, <<4, 1>>)
Damaged == Rule("R3", "packet", [AnyMatch EXCEPT !.decode_code = "truncated_header"], "count", None,
                <<"decode_code">>, <<1, 1>>)
Ended   == Rule("R4", "session", AnyMatch, "count", None, <<"session">>, <<1, 1>>)
Ratio   == [Rule("R1", "packet", Tcp, "ratio", "bytes", <<"protocol">>, <<1, 2>>) EXCEPT !.field_gt = 2]

MCBuiltin == <<Burst, Volume, Damaged, Ended>>

RuleFile(stem, rule) == [stem |-> stem, readable |-> TRUE, yaml |-> TRUE, rule |-> rule]

\* An overlay with a file of every fate.
MCOverlay ==
  <<RuleFile("R1", Ratio), RuleFile("R1", Burst), RuleFile("X", Damaged),
    RuleFile("R2", [Volume EXCEPT !.field = None]),
    [RuleFile("R3", Damaged) EXCEPT !.readable = FALSE]>>

\* The rule directories of the disk.
MCDisk == ("mine" :> [builtin |-> None, files |-> MCOverlay])
          @@ ("rules" :> [builtin |-> <<>>, files |-> MCOverlay])

\* What an invocation with these arguments analyses with, given ./packetsage.yaml.
RunConfig(cwd, args) ==
  LET loaded   == ResolveFile(NotGiven, NotGiven, cwd).config
      none     == [db |-> None, rules |-> None, provider |-> None, model |-> None]
      settings == ResolveSettings(none, [v \in Variables |-> None], loaded)
      c        == EffectiveConfig(args, loaded, settings)
  IN  [packetEvents |-> c[<<<<"emit">>, <<"packet", "events">>>>],
       limit        |-> c[<<<<"emit">>, <<"limit", "events">>>>],
       rulesDir     |-> OverlayOf(c, MCDisk)]

\* Three invocations: the defaults with --errors-only, a rule directory of one's
\* own with --limit-events, and a file that wants neither packets nor rules.
MCConfigs ==
  {RunConfig(NotGiven, [limitEvents |-> 0, errorsOnly |-> TRUE, noRules |-> FALSE]),
   RunConfig(File(Rules @@ (Path :> "mine")), [limitEvents |-> 3, errorsOnly |-> FALSE, noRules |-> FALSE]),
   RunConfig(File(Rules @@ (<<<<"rules">>, <<"enabled">>>> :> FALSE)
                  @@ Emit @@ (<<<<"emit">>, <<"packet", "events">>>> :> "None")),
             [limitEvents |-> 0, errorsOnly |-> FALSE, noRules |-> FALSE])}

-----------------------------------------------------------------------------
(* The ways to look at a rule directory agree on it.                        *)

Directories ==
  LET files == ToSet(MCOverlay) \cup {RuleFile("R2", Volume), RuleFile("R1", [Burst EXCEPT !.tags = 9])}
  IN  UNION {[1 .. n -> files] : n \in 0 .. 3}

\* `rules check` accepts a directory exactly when `rules list` and the analysis
\* drop none of its files, and then accepts each file by itself; the worker's
\* listing of a directory has every rule it loaded once and no built-in one.
ASSUME RuleViewsAgree ==
  \A files \in Directories :
    LET load  == LoadLenient(files, MCBuiltin)
        asked == RulesRequest(files, MCBuiltin)
    IN  /\ CheckDirectory(files) = "Success" <=> load.dead = <<>>
        /\ CheckDirectory(files) = "Success" => \A i \in DOMAIN files : CheckFile(files[i]) = "Success"
        /\ Len(asked.rules) = asked.loaded /\ asked.dead = Len(load.dead)
        /\ \A i \in DOMAIN asked.rules : \E f \in ToSet(files) : f.rule = asked.rules[i]
        /\ ToSet(asked.rules) \subseteq ToSet(RulesList(files, MCBuiltin))
=============================================================================

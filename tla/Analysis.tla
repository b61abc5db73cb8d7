------------------------------ MODULE Analysis ------------------------------
(***************************************************************************)
(* One run of the analysis pipeline (packetsage-core/src/pipeline.rs) with *)
(* the store it fills (store.rs): reader, decoder, session aggregation,    *)
(* reassembly and rules composed in the order the code calls them.         *)
(*                                                                         *)
(* The pipeline is one thread.  What it dispatches while it handles one    *)
(* capture block waits in `outbox`, in order; Dispatch is one call of      *)
(* dispatch: the rules see the event, then the sink gets it and its        *)
(* alerts.  Nothing between two calls depends on the rules.  The sink's    *)
(* log keeps the kinds of the events, and drops those past its limit.      *)
(***************************************************************************)
EXTENDS RuleWindow, Query, StreamTable, Bags

CONSTANTS
  Blocks,           \* the capture blocks a file may hold, by format
  MaxBlocks,        \* bound of the model: blocks of a file
  Configs,          \* [packetEvents, limit, rulesDir]: emit.packet_events, the limit
                    \* of events, and the files of the rule directory (None: no rules)
  BuiltinRules,     \* the embedded rules
  MaxStreamStates   \* MAX_STREAM_STATE_EVENTS

\* The files are what serde and the reader accept; the embedded rules are valid.
ASSUME AnalysisAssumption ==
  /\ None \notin Int /\ MaxBlocks \in Nat /\ MaxStreamStates \in Nat
  /\ \A f \in DOMAIN Blocks : \A b \in Blocks[f] : IsBlock(b)
  /\ \A c \in Configs :
       /\ c.limit \in Nat /\ c.packetEvents \in {"All", "ErrorsOnly", "None"}
       /\ c.rulesDir # None => /\ c.rulesDir \in Seq(ToSet(c.rulesDir))
                              /\ \A f \in ToSet(c.rulesDir) : f.yaml => IsRule(f.rule)
  /\ BuiltinRules \in Seq(ToSet(BuiltinRules))
  /\ \A i \in DOMAIN BuiltinRules : IsRule(BuiltinRules[i]) /\ Timed(BuiltinRules[i])
  /\ \A i, j \in DOMAIN BuiltinRules : BuiltinRules[i].id = BuiltinRules[j].id => i = j

VARIABLES
  phase,      \* where the run is; ProgressPhase is a view of it
  config,     \* the settings of the run
  format,     \* the container format
  file,       \* the blocks read so far
  reader,     \* CaptureReader
  clock,      \* the latest packet time seen
  sessions,   \* store.sessions
  table,      \* the Reassembler
  store,      \* the rest of AnalysisStore
  outbox,     \* what is still to be dispatched
  log         \* what the sink wrote

runVars == <<phase, config, format, file, reader, clock, sessions, table, store, outbox, log>>
vars == <<runVars, windowVars>>

NewStore ==
  [indexed |-> <<>>, stats |-> EmptyBag, decodeErrors |-> 0, streamStates |-> EmptyBag,
   truncated |-> 0, nonfatal |-> 0, alerts |-> <<>>, dropped |-> 0, evictions |-> 0,
   infoSent |-> FALSE, summary |-> None]

\* JsonlSink::emit, for several events.
Emitted(events) ==
  LET all == log \o [i \in DOMAIN events |-> events[i].kind]
  IN  IF config.limit # 0 /\ Len(all) > config.limit THEN SubSeq(all, 1, config.limit) ELSE all

\* Regression: the rules of a directory take the place of the built-in ones.
RulesOfDirectory(c) == IF c.rulesDir = None THEN <<>> ELSE LoadLenient(c.rulesDir, <<>>).rules

\* build_rules_for: the built-in rules with those of the directory over them.
RulesOf(c) == IF c.rulesDir = None THEN <<>> ELSE LoadLenient(c.rulesDir, BuiltinRules).rules

\* What dispatch makes of an event: the rules see it even if it is not emitted.
Queued(event, emit) == [event |-> event, emit |-> emit]

Plain(kind) == [kind |-> kind]

-----------------------------------------------------------------------------
(* One packet                                                               *)

DecodeErrorEvent(item, error) ==
  [kind |-> "DecodeError", idx |-> item.idx,
   fields |-> [decode_layer |-> error.layer, decode_code |-> error.code]]

\* ... by the names the rules read.
PacketFields(item, d) ==
  LET detail == IF d.app = None THEN <<>> ELSE d.app.fields
      names  == {"bytes", "protocol", "src_ip", "dst_ip", "src_port", "dst_port", "tcp.flags",
                 "session", "detail"}
      value  == [f \in names |->
                   CASE f = "bytes"    -> item.frame.cap
                     [] f = "protocol" -> IF d.net = None THEN None ELSE d.net.proto
                     [] f = "src_ip"   -> IF d.net = None THEN None ELSE d.net.src
                     [] f = "dst_ip"   -> IF d.net = None THEN None ELSE d.net.dst
                     [] f = "src_port" -> IF d.tr = None THEN None ELSE d.tr.sport
                     [] f = "dst_port" -> IF d.tr = None THEN None ELSE d.tr.dport
                     [] f = "tcp.flags" -> TcpFlags(d)
                     [] f = "session"  -> IF d.net = None \/ d.tr = None THEN None
                                          ELSE <<Src(d), Dst(d)>>
                     [] f = "detail"   -> IF d.app = None THEN None ELSE d.app.proto]
  IN  Joined([f \in {f \in names : value[f] # None} |-> value[f]], detail)

\* packet_event.
PacketEvent(item, d) ==
  [kind |-> "Packet", idx |-> item.idx, ts |-> item.ts, fields |-> PacketFields(item, d)]

ShouldEmitPacket(d) ==
  CASE config.packetEvents = "All"        -> TRUE
    [] config.packetEvents = "ErrorsOnly" -> d.errors # <<>>
    [] config.packetEvents = "None"       -> FALSE

\* note_decode_error (here only how many there were) and observe_packet, except for
\* the sessions.
Indexed(item, d) ==
  [store EXCEPT
     !.indexed      = Append(@, [idx |-> item.idx, ts |-> item.ts]),
     !.truncated    = @ + One(item.frame.cap < item.frame.orig),
     !.decodeErrors = @ + Len(d.errors),
     !.stats        = @ (+) SetToBag(ProtocolRows(d)),
     !.infoSent     = TRUE]

\* Regression: segments without payload are not fed.
ReassemblyInputWithData(d) ==
  InSession(d) /\ ~ d.net.frag /\ d.net.proto = "tcp" /\ d.len > 0

ReassemblyInput(d) == InSession(d) /\ ~ d.net.frag /\ d.net.proto = "tcp"

\* ... once fed: drains the stream, and notes the verdict and the state in session n.
Noted(known, n, dir, fed) ==
  LET key   == known[n].key
      taken == TakeTable(fed.table, key, dir)
      state == TableState(taken, key)
  IN  [sessions |-> [known EXCEPT ![n] = [NoteVerdict(@, fed.verdict) EXCEPT !.state = state]],
       table    |-> taken,
       states   |-> {state} \cap Anomalous]

\* observe_reassembly: feeds the segment in the direction the session has now.
Reassembled(known, item, d) ==
  LET key == SessionKey(d)
      n   == SessionNumber(known, key)
      dir == IF ClientEndpoint(known[n]) = Src(d) THEN "c2s" ELSE "s2c"
  IN  IF ~ ReassemblyInput(d) THEN [sessions |-> known, table |-> table, states |-> {}]
      ELSE Noted(known, n, dir, FeedTable(table, key, dir, Segment(d), item.ts, item.idx))

\* The packet d of item is counted everywhere; out is what reassembly made of it.
Aggregated(item, d, out) ==
  /\ clock' = Max({clock, item.ts})
  /\ sessions' = out.sessions /\ table' = out.table
  /\ store' = [Indexed(item, d) EXCEPT !.streamStates = @ (+) SetToBag(out.states)]
  /\ outbox' = (IF store.infoSent THEN <<>> ELSE <<Queued(Plain("CaptureInfo"), TRUE)>>)
               \o [i \in DOMAIN d.errors |-> Queued(DecodeErrorEvent(item, d.errors[i]), TRUE)]
               \o <<Queued(PacketEvent(item, d), ShouldEmitPacket(d))>>

ObserveDecoded(item, d) ==
  Aggregated(item, d, Reassembled(Observe(sessions, d, item.frame.cap, item.ts), item, d))

ObservePacket(item) == ObserveDecoded(item, Decode(item.frame))

-----------------------------------------------------------------------------
(* The end of the capture                                                   *)

StreamStateEvents(n) == [i \in 1 .. n |-> Queued(Plain("StreamState"), TRUE)]

\* Session summaries, then one event per anomalous session and per stream that
\* timed out, up to the limit for both.
CloseSessions ==
  LET pruned    == PruneExpired(table, Max({clock, 0}))
      anomalies == IncompleteCount(sessions) + Len(pruned.pruned)
  IN  /\ table' = pruned.table
      /\ outbox' = [i \in DOMAIN sessions |-> Queued(SummaryEvent(sessions[i], i), TRUE)]
                   \o StreamStateEvents(Min({anomalies, MaxStreamStates}))

\* finalise_summary.
Summary ==
  LET n == Len(store.indexed)
  IN  [packets |-> reader.packets, bytes |-> reader.bytes, sessions |-> Len(sessions),
       alerts |-> Len(store.alerts), decodeErrors |-> store.decodeErrors,
       incomplete |-> IncompleteCount(sessions),
       first |-> IF n = 0 THEN None ELSE store.indexed[1].ts,
       last  |-> IF n = 0 THEN None ELSE store.indexed[n].ts]

-----------------------------------------------------------------------------
(* Actions *)

\* run: the fingerprint, the first event, then the reader is opened.
Start ==
  /\ phase = "start"
  /\ \/ phase' = "failed" /\ UNCHANGED log                      \* unreadable
     \/ phase' \in {"failed", "parse"} /\ log' = Emitted(<<Plain("TaskStarted")>>)
  /\ UNCHANGED <<config, format, file, reader, clock, sessions, table, store, outbox, windowVars>>

\* A file starts with the header of its format.
BlocksNow ==
  {b \in Blocks[format] : IF file = <<>> THEN b.kind \in {"LegacyHeader", "SectionHeader"}
                          ELSE b.kind # "LegacyHeader"}

Reading == phase = "parse" /\ outbox = <<>>

\* What the reader made of a block.
Handled(read) ==
  /\ reader' = read.reader
  /\ \/ /\ read.item.type = "None"
        /\ UNCHANGED <<clock, sessions, table, store, outbox>>
     \/ /\ read.item.type = "NonFatal"
        /\ store' = [store EXCEPT !.nonfatal = @ + 1]
        /\ UNCHANGED <<clock, sessions, table, outbox>>
     \/ /\ read.item.type = "Packet"
        /\ ObservePacket(read.item)

ReadBlock ==
  /\ Reading /\ Len(file) < MaxBlocks
  /\ \E b \in BlocksNow : file' = Append(file, b) /\ Handled(HandleBlock(reader, b))
  /\ UNCHANGED <<phase, config, format, log, windowVars>>

\* Regression: the alerts of an event go to the sink but not into the store.
DispatchLosingAlerts ==
  /\ outbox # <<>> /\ phase # "failed"
  /\ EvaluateEvent(Head(outbox).event, IF clock = MinTime THEN 0 ELSE clock)
  /\ log' = Emitted((IF Head(outbox).emit THEN <<Head(outbox).event>> ELSE <<>>)
                    \o [i \in DOMAIN raised' |-> Plain("Alert")])
  /\ outbox' = Tail(outbox)
  /\ UNCHANGED <<phase, config, format, file, reader, clock, sessions, table, store>>

\* dispatch: rules, then sink, then the alerts into the store and the sink.
Dispatch ==
  /\ outbox # <<>> /\ phase # "failed"
  /\ EvaluateEvent(Head(outbox).event, IF clock = MinTime THEN 0 ELSE clock)
  /\ store' = [store EXCEPT !.alerts = @ \o raised']
  /\ log' = Emitted((IF Head(outbox).emit THEN <<Head(outbox).event>> ELSE <<>>)
                    \o [i \in DOMAIN raised' |-> Plain("Alert")])
  /\ outbox' = Tail(outbox)
  /\ UNCHANGED <<phase, config, format, file, reader, clock, sessions, table>>

\* The sink takes only the first of these events.  None fails past its limit.
CutShort(events) ==
  \E n \in 0 .. Len(events) - 1 :
    /\ config.limit = 0 \/ Len(log) + n < config.limit
    /\ log' = Emitted(SubSeq(events, 1, n))

\* A write to the sink fails, of what is dispatched or of the last alerts, Stats or
\* TaskFinished: the run ends there, and what the store and the rules hold is lost.
SinkFails ==
  /\ \/ /\ outbox # <<>> /\ phase # "failed"
        /\ \E g \in Evaluated(Head(outbox).event, IF clock = MinTime THEN 0 ELSE clock) :
             CutShort((IF Head(outbox).emit THEN <<Head(outbox).event>> ELSE <<>>)
                      \o [i \in DOMAIN g.alerts |-> Plain("Alert")])
     \/ /\ phase = "rules" /\ outbox = <<>>
        /\ CutShort([i \in DOMAIN Flushed(Max({clock, 0})).alerts |-> Plain("Alert")])
     \/ /\ phase = "finalise"
        /\ CutShort(<<Plain("Stats"), Plain("TaskFinished")>>)
  /\ phase' = "failed"
  /\ UNCHANGED <<config, format, file, reader, clock, sessions, table, store, outbox, windowVars>>

\* The file ends, with a whole record or a cut one.
EndOfFile ==
  /\ Reading /\ file # <<>>
  /\ \/ UNCHANGED <<store, reader>>
     \/ /\ store' = [store EXCEPT !.nonfatal = @ + 1]
        /\ reader' = [reader EXCEPT !.nonfatal = @ + 1]
  /\ CloseSessions
  /\ phase' = "rules"
  /\ UNCHANGED <<config, format, file, clock, sessions, log, windowVars>>

\* The file's structure is damaged beyond recovery.
Corrupted ==
  /\ Reading /\ phase' = "failed"
  /\ UNCHANGED <<config, format, file, reader, clock, sessions, table, store, outbox, log, windowVars>>

FlushRules ==
  /\ phase = "rules" /\ outbox = <<>>
  /\ Flush(Max({clock, 0}))
  /\ store' = [store EXCEPT !.alerts = @ \o raised', !.evictions = evictions,
                            !.dropped = table.dropped]
  /\ log' = Emitted([i \in DOMAIN raised' |-> Plain("Alert")])
  /\ phase' = "finalise"
  /\ UNCHANGED <<config, format, file, reader, clock, sessions, table, outbox>>

Finalise ==
  /\ phase = "finalise" /\ phase' = "done"
  /\ store' = [store EXCEPT !.summary = Summary]
  /\ log' = Emitted(<<Plain("Stats"), Plain("TaskFinished")>>)
  /\ UNCHANGED <<config, format, file, reader, clock, sessions, table, outbox, windowVars>>

Init ==
  /\ phase = "start" /\ file = <<>> /\ reader = NewReader /\ clock = MinTime
  /\ sessions = <<>> /\ table = EmptyTable /\ store = NewStore /\ outbox = <<>> /\ log = <<>>
  /\ config \in Configs /\ format \in DOMAIN Blocks
  /\ WindowInit(RulesOf(config))

Next == Start \/ ReadBlock \/ Dispatch \/ SinkFails \/ EndOfFile \/ Corrupted \/ FlushRules \/ Finalise

Spec == Init /\ [][Next]_vars

-----------------------------------------------------------------------------
(* Properties *)

Phases == {"start", "parse", "rules", "finalise", "done", "failed"}

TypeOK ==
  /\ phase \in Phases /\ config \in Configs /\ format \in DOMAIN Blocks
  /\ file \in Seq(Blocks[format]) /\ Len(file) <= MaxBlocks
  /\ reader.packets = reader.nextIndex /\ Len(store.indexed) = reader.packets
  /\ \A i \in DOMAIN rules : IsRule(rules[i])
  /\ DOMAIN matched = DOMAIN windows /\ Cardinality(DOMAIN windows) <= MaxGroups
  /\ \A k \in DOMAIN table.streams : k[1] \in table.keys \/ phase \notin {"start", "parse"}
  /\ config.limit # 0 => Len(log) <= config.limit

\* A rule directory overlays the built-in rules: every id is loaded once, every
\* built-in id is still there, every file was either dead-lettered or its rule is
\* the loaded one of its id, and every rule that is not built in is that of a file
\* that is valid by itself.
RulesOverlay ==
  config.rulesDir # None =>
  LET load == LoadLenient(config.rulesDir, BuiltinRules)
  IN  /\ \A i, j \in DOMAIN rules : rules[i].id = rules[j].id => i = j
      /\ Ids(BuiltinRules) \subseteq Ids(rules)
      /\ load.loaded + Len(load.dead) = Len(config.rulesDir)
      /\ \A f \in ToSet(config.rulesDir) \ ToSet(load.dead) :
           f.rule \in ToSet(rules) /\ f.stem = f.rule.id
      /\ ToSet(rules) \subseteq ToSet(BuiltinRules)
                                \cup {f.rule : f \in {f \in ToSet(config.rulesDir) : Accepts(f, {})}}

\* A packet is read exactly when its interface is declared in the section of
\* the file it stands in (a section header forgets the interfaces before it).
ReadsItsSection ==
  LET Opens(i)    == file[i].kind \in {"SectionHeader", "LegacyHeader"}
      Section(i)  == {j \in 1 .. i : \A m \in j + 1 .. i : ~ Opens(m)}
      Declared(i) == Cardinality({j \in Section(i) :
                       file[j].kind \in {"InterfaceDescription", "LegacyHeader"}})
      Readable1(i) ==
        \/ file[i].kind \in {"Legacy", "SimplePacket"} /\ Declared(i) > 0
        \/ file[i].kind = "EnhancedPacket" /\ Declared(i) > file[i].iface
  IN  reader.packets = Cardinality({i \in DOMAIN file : Readable1(i)})

\* Every TCP or UDP packet is counted in exactly one session, the one of its two
\* endpoints, whichever of them sent it.
SessionsPartition ==
  LET packets == PacketsOf(file)
      D(i)    == Decode(packets[i].frame)
      placed  == {i \in DOMAIN packets :
                    D(i).net # None /\ D(i).tr # None /\ D(i).net.proto \in {"tcp", "udp"}}
      Ends(i) == <<D(i).net.proto, {Src(D(i)), Dst(D(i))}>>
      Of(e)   == <<e.key.proto, {e.key.a, e.key.b}>>
  IN  /\ {Of(sessions[n]) : n \in DOMAIN sessions} = {Ends(i) : i \in placed}
      /\ \A n \in DOMAIN sessions :
           LET e == sessions[n]
           IN  /\ e.packets = Cardinality({i \in placed : Ends(i) = Of(e)})
               /\ e.packets = e.srcPackets + e.dstPackets /\ e.bytes = e.srcBytes + e.dstBytes

\* The state a session gets while the capture is read is the one a later replay
\* of the file finds, unless its client changed on the way or the session cap
\* kept it out of the reassembler.
ReplayAgrees ==
  Reading => \A n \in DOMAIN sessions :
    LET e == sessions[n]
    IN  e.key \in table.keys /\ ~ e.turned =>
          e.state = MergedState({StreamState(Replayed(PacketsOf(file), e, dir)) : dir \in Directions})

\* Two alerts of one rule and group are a cooldown apart, unless the budget
\* evicted a window (and its cooldown with it) in between.
CooldownHolds ==
  \A i, j \in DOMAIN store.alerts :
    LET a == store.alerts[i]
        b == store.alerts[j]
    IN  i < j /\ a.key = b.key /\ a.evicted = b.evicted =>
          b.now >= a.now + WindowSeconds[rules[a.key[1]].cooldown]

\* An alert names packets its rule matches in its group, inside its range, and
\* none at all when its window had dropped events.
EvidenceHolds ==
  LET packets == PacketsOf(file)
      Events(item) ==
        LET d == Decode(item.frame)
        IN  {PacketEvent(item, d)} \cup {DecodeErrorEvent(item, d.errors[j]) : j \in DOMAIN d.errors}
      Supports(a, p) ==
        \E i \in DOMAIN packets : packets[i].idx = p /\ \E e \in Events(packets[i]) :
          Matches(rules[a.key[1]], e) /\ GroupOf(rules[a.key[1]], e) = a.key[2]
  IN  \A i \in DOMAIN store.alerts :
        LET a == store.alerts[i]
        IN  /\ a.degraded => a.samples = {}
            /\ rules[a.key[1]].scope = "packet" => \A p \in a.samples :
                 a.first <= p /\ p <= a.last /\ Supports(a, p)

Logged(kind) == Cardinality({i \in DOMAIN log : log[i] = kind})

\* The report of a finished run adds up: it is framed by TaskStarted and
\* TaskFinished, and the totals it states are those of the events written; a
\* failed run never looks finished.
ReportAddsUp ==
  /\ phase = "failed" => Logged("TaskFinished") = 0
  /\ phase = "done" =>
       LET s == store.summary
       IN  /\ s.alerts = Len(store.alerts)
           /\ config.limit = 0 =>
                /\ log[1] = "TaskStarted" /\ Logged("TaskStarted") = 1
                /\ log[Len(log)] = "TaskFinished" /\ Logged("TaskFinished") = 1
                /\ Logged("Alert") = s.alerts
                /\ Logged("SessionSummary") = s.sessions
                /\ Logged("DecodeError") = s.decodeErrors
                /\ Logged("StreamState") >= Min({s.incomplete, MaxStreamStates})
                /\ Logged("CaptureInfo") = One(s.packets > 0)
=============================================================================

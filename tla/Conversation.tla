---------------------------- MODULE Conversation ----------------------------
(***************************************************************************)
(* Session aggregation, packetsage-core/src/conversation.rs and the session*)
(* keys of model.rs.  A session is a record; the aggregator is the         *)
(* sequence of them in first-seen order, a session's number being its      *)
(* place.  An endpoint is [ip, port]; counters saturate at 2^64 and are    *)
(* plain numbers here.                                                     *)
(***************************************************************************)
EXTENDS CaptureFile

Port(p) == IF p = None THEN 0 ELSE p

Src(d) == [ip |-> d.net.src, port |-> Port(d.tr.sport)]
Dst(d) == [ip |-> d.net.dst, port |-> Port(d.tr.dport)]

NotAfter(x, y) == x.ip < y.ip \/ (x.ip = y.ip /\ x.port <= y.port)

\* Both directions of a conversation have one key, the smaller endpoint first.
Canonicalize(proto, src, dst) ==
  IF NotAfter(src, dst) THEN [proto |-> proto, a |-> src, b |-> dst]
  ELSE [proto |-> proto, a |-> dst, b |-> src]

\* Regression: the key keeps the direction of the packet.
DirectedKey(d) == [proto |-> d.net.proto, a |-> Src(d), b |-> Dst(d)]

\* Whether a packet has a session key, and which.
InSession(d) == d.net # None /\ d.tr # None /\ d.net.proto \in {"tcp", "udp"}

SessionKey(d) == Canonicalize(d.net.proto, Src(d), Dst(d))

TcpFlags(d) == IF d.tr = None THEN {} ELSE d.tr.flags

IsBareSyn(d) == "SYN" \in TcpFlags(d) /\ "ACK" \notin TcpFlags(d)
IsSynAck(d)  == {"SYN", "ACK"} \subseteq TcpFlags(d)

NewSession(key, d, ts) ==
  [key |-> key, client |-> IF Src(d) = key.a THEN "A" ELSE "B",
   basis |-> IF IsBareSyn(d) THEN "syn_first" ELSE "first_seen",
   first |-> ts, last |-> ts,
   packets |-> 0, bytes |-> 0, srcPackets |-> 0, dstPackets |-> 0, srcBytes |-> 0, dstBytes |-> 0,
   syn |-> 0, synAck |-> 0, rst |-> 0, fin |-> 0, retransmissions |-> 0, outOfOrder |-> 0,
   state |-> "New", app |-> None, turned |-> FALSE]

ClientEndpoint(e) == IF e.client = "A" THEN e.key.a ELSE e.key.b

One(b) == IF b THEN 1 ELSE 0

\* Counts a packet in its session; a bare SYN, however late, names the client.
\* History: `turned` says that the client changed after packets were counted.
Count(e, d, cap, ts) ==
  LET fromA == Src(d) = e.key.a
      side  == IF fromA THEN "A" ELSE "B"
  IN  [e EXCEPT
         !.client = IF IsBareSyn(d) THEN side ELSE @,
         !.basis  = IF IsBareSyn(d) THEN "syn_first" ELSE @,
         !.turned = @ \/ (IsBareSyn(d) /\ side # e.client),
         !.packets = @ + 1, !.bytes = @ + cap,
         !.srcPackets = @ + One(fromA), !.srcBytes = IF fromA THEN @ + cap ELSE @,
         !.dstPackets = @ + One(~ fromA), !.dstBytes = IF fromA THEN @ ELSE @ + cap,
         !.first = IF ts < @ THEN ts ELSE @, !.last = IF ts > @ THEN ts ELSE @,
         !.syn = @ + One(IsBareSyn(d)), !.synAck = @ + One(IsSynAck(d)),
         !.rst = @ + One("RST" \in TcpFlags(d)), !.fin = @ + One("FIN" \in TcpFlags(d)),
         !.app = IF @ = None /\ d.app # None THEN d.app.proto ELSE @]

SessionNumber(sessions, key) == CHOOSE i \in DOMAIN sessions : sessions[i].key = key

Known(sessions, key) == \E i \in DOMAIN sessions : sessions[i].key = key

Observe(sessions, d, cap, ts) ==
  LET key == SessionKey(d)
  IN  IF ~ InSession(d) THEN sessions
      ELSE IF Known(sessions, key)
           THEN [sessions EXCEPT ![SessionNumber(sessions, key)] = Count(@, d, cap, ts)]
           ELSE Append(sessions, Count(NewSession(key, d, ts), d, cap, ts))

NoteVerdict(e, verdict) ==
  [e EXCEPT !.retransmissions = @ + One(verdict = "Retransmission"),
            !.outOfOrder = @ + One(verdict = "Buffered")]

Anomalous == {"Incomplete", "BufferOverflow"}

IncompleteCount(sessions) == Cardinality({i \in DOMAIN sessions : sessions[i].state \in Anomalous})

\* The fields of a summary event that rules read; `src` is endpoint A.
SummaryEvent(e, number) ==
  [kind |-> "SessionSummary", idx |-> number, ts |-> e.first,
   fields |-> [f \in {"protocol", "src_ip", "src_port", "dst_ip", "dst_port", "session", "state"} |->
                 CASE f = "protocol" -> e.key.proto
                   [] f = "src_ip"   -> e.key.a.ip
                   [] f = "src_port" -> e.key.a.port
                   [] f = "dst_ip"   -> e.key.b.ip
                   [] f = "dst_port" -> e.key.b.port
                   [] f = "session"  -> number
                   [] f = "state"    -> e.state]]
=============================================================================

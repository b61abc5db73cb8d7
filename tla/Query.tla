-------------------------------- MODULE Query --------------------------------
(***************************************************************************)
(* What one analysed file can be asked: packetsage-core/src/query.rs over  *)
(* the tables that store.rs fills packet by packet.  A file is the         *)
(* sequence of its blocks (CaptureFile).  Previews, content types and the  *)
(* columns of the answers no rule or finding depends on are left out.      *)
(***************************************************************************)
EXTENDS Conversation, StreamBuf, FiniteSetsExt, SequencesExt

PacketsOf(blocks) == Driven(blocks).packets

-----------------------------------------------------------------------------
(* What observe_packet keeps of a packet                                    *)

\* The rows of the protocol statistics a packet adds to: <<layer, protocol>>.  The
\* decoder gives both link types a source address, so that each counts as "ethernet".
ProtocolRows(d) ==
  LET version == IF d.net.version = 6 THEN "ipv6" ELSE "ipv4"
      link    == IF d.link = None THEN {} ELSE {<<"link", "ethernet">>}
      network == IF d.net = None THEN {}
                 ELSE {<<version, IF d.net.proto = "arp" THEN "arp" ELSE version>>}
                      \cup ({<<d.net.proto, d.net.proto>>}
                            \cap {<<p, p>> : p \in {"tcp", "udp", "icmp", "icmpv6", "arp"}})
      app     == IF d.app = None THEN {} ELSE {<<d.app.proto, d.app.proto>>}
  IN  link \cup network \cup app

\* PacketMeta, the row of the packet index.
PacketMeta(item, d) ==
  LET placed == d.net # None /\ d.tr # None
  IN  [idx |-> item.idx, ts |-> item.ts, flags |-> TcpFlags(d), status |-> Status(d),
       proto   |-> IF d.net = None THEN "other" ELSE d.net.proto,
       src     |-> IF placed THEN Src(d) ELSE None,
       dst     |-> IF placed THEN Dst(d) ELSE None,
       payload |-> d.len]

NoPackets == [index |-> <<>>, stats |-> <<>>, sessions |-> <<>>, truncated |-> 0, errors |-> 0]

\* observe_packet.
Observed(tables, item) ==
  LET d == Decode(item.frame)
      Bumped(row) ==
        IF row \in DOMAIN tables.stats
        THEN [packets |-> tables.stats[row].packets + 1, bytes |-> tables.stats[row].bytes + item.frame.cap]
        ELSE [packets |-> 1, bytes |-> item.frame.cap]
  IN  [index     |-> Append(tables.index, PacketMeta(item, d)),
       stats     |-> [row \in ProtocolRows(d) |-> Bumped(row)] @@ tables.stats,
       sessions  |-> Observe(tables.sessions, d, item.frame.cap, item.ts),
       truncated |-> tables.truncated + One(item.frame.cap < item.frame.orig),
       errors    |-> tables.errors + Len(d.errors)]

\* The tables of a whole file.
Tables(blocks) == FoldLeft(Observed, NoPackets, PacketsOf(blocks))

-----------------------------------------------------------------------------
(* Queries *)

\* The protocols in the order of their names, which breaks ties.
ByName == <<"arp", "dhcp", "dns", "ethernet", "http", "icmp", "icmpv6", "ipv4", "ipv6",
            "linux_sll", "tcp", "tls", "udp">>

\* ProtocolStats::top, the most frequent rows of a layer.
ProtocolTop(tables, layer, top) ==
  LET rows     == {row \in DOMAIN tables.stats : row[1] = layer}
      Place(r) == SelectInSeq(ByName, LAMBDA name : name = r[2])
      Before(r, s) ==
        \/ tables.stats[r].packets > tables.stats[s].packets
        \/ tables.stats[r].packets = tables.stats[s].packets /\ Place(r) < Place(s)
      sorted   == SetToSortSeq(rows, Before)
  IN  SubSeq(sorted, 1, Min({Len(sorted), Max({top, 1})}))

\* The layers that the argument `layer` of get_protocol_stats stands for.
LayersOf(layer) ==
  CASE layer = "network"     -> <<"ipv4", "ipv6">>
    [] layer = "application" -> <<"dns", "http", "tls", "dhcp">>
    [] layer = "transport"   -> <<"tcp", "udp", "icmp">>
    [] OTHER                 -> <<layer>>

KnownLayers == {"link", "network", "ipv4", "ipv6", "tcp", "udp", "icmp", "dns", "http", "tls",
                "dhcp", "application", "transport"}

MatchesFilter(e, filter) ==
  /\ filter.protocol # None => e.key.proto = filter.protocol
  /\ filter.ip # None => filter.ip \in {e.key.a.ip, e.key.b.ip}
  /\ filter.minBytes # None => e.bytes >= filter.minBytes
  /\ filter.minPackets # None => e.packets >= filter.minPackets

SortValue(e, by) ==
  CASE by = "bytes" -> e.bytes [] by = "packets" -> e.packets [] by = "duration" -> e.last - e.first

\* The sessions, by number, that a query lists, the largest first.
Conversations(tables, query) ==
  LET V(n) == SortValue(tables.sessions[n], query.sortBy)
      Before(m, n) == V(m) > V(n) \/ (V(m) = V(n) /\ m < n)
      sorted == SetToSortSeq({n \in DOMAIN tables.sessions : MatchesFilter(tables.sessions[n], query.filter)},
                             Before)
  IN  SubSeq(sorted, 1, Min({Len(sorted), IF query.limit = 0 THEN 20 ELSE query.limit}))

PacketMatches(meta, filter) ==
  LET Is(field, value) == filter[field] # None => filter[field] = value
      Ip(end)   == IF end = None THEN None ELSE end.ip
      PortOf(end) == IF end = None THEN None ELSE end.port
  IN  /\ Is("srcIp", Ip(meta.src)) /\ Is("dstIp", Ip(meta.dst))
      /\ Is("srcPort", PortOf(meta.src)) /\ Is("dstPort", PortOf(meta.dst))
      /\ Is("protocol", meta.proto)
      /\ filter.flags \subseteq meta.flags
      /\ filter.from # None => meta.ts >= filter.from
      /\ filter.to # None => meta.ts <= filter.to
      /\ filter.errorsOnly => meta.status # "ok"

\* The first packets that match, in file order.
FilterPackets(tables, filter, limit) ==
  LET hits == SelectSeq(tables.index, LAMBDA meta : PacketMatches(meta, filter))
  IN  [i \in 1 .. Min({Len(hits), Max({limit, 1})}) |-> hits[i].idx]

\* inspect_packets: the indices it has a row for; the file is opened again only
\* when one of them has a payload to show.
Inspected(tables, indices) == {i \in indices : i + 1 \in DOMAIN tables.index}

NeedsPayload(tables, indices) ==
  \E i \in Inspected(tables, indices) : tables.index[i + 1].payload > 0

-----------------------------------------------------------------------------
(* Single-session replay: reconstruct of store.rs                           *)

Segment(d) ==
  [seq |-> IF d.tr.seq = None THEN 0 ELSE d.tr.seq, len |-> d.len,
   flags |-> TcpFlags(d) \cap Flags]

\* Whether a replay of one direction of session e feeds this packet.
Replays(e, dir, item) ==
  LET d == Decode(item.frame)
  IN  /\ d.net # None /\ d.tr # None /\ e.key.proto = "tcp" /\ d.net.proto = "tcp"
      /\ Canonicalize("tcp", Src(d), Dst(d)) = e.key
      /\ (Src(d) = ClientEndpoint(e)) <=> (dir = "c2s")

\* ... and the stream after it.
ReplayOne(e, dir, stream, item) ==
  IF Replays(e, dir, item) THEN TakeReady(FeedSegment(stream, Segment(Decode(item.frame)), item.idx))
  ELSE stream

\* The stream that one direction of session e makes of a file's packets, by the
\* client the session ended up with.
Replayed(packets, e, dir) ==
  LET after[i \in 0 .. Len(packets)] ==
        IF i = 0 THEN EmptyStream ELSE ReplayOne(e, dir, after[i - 1], packets[i])
  IN  after[Len(packets)]

\* The bytes a replay delivers, up to the caller's limit.
ReplayedBytes(packets, e, dir, limit) ==
  Min({limit, MapThenSumSet(LAMBDA piece : piece.len, ToSet(Replayed(packets, e, dir).delivered))})
=============================================================================
